---- MODULE Spec2Model ----
(***************************************************************************)
(* A model of the programs of ChannelLiveRecorder.                         *)
(*                                                                         *)
(* The chat-to-video renderer                                              *)
(* (src/tools/yt-chat-to-video/yt-chat-to-video.py): transcript actions    *)
(* are normalised to messages, the timeline is sorted and repaired, and    *)
(* the frame loop advances a cursor over the messages, lays the visible    *)
(* messages out and writes one raw frame per iteration to the encoder.     *)
(*                                                                         *)
(* The orchestrator (src/live_recording_helper.py): it starts the mover    *)
(* and a video and a chat recorder per configured channel, follows the     *)
(* edits of channellist.yaml, and stops every child when it is signalled.  *)
(*                                                                         *)
(* The mover (src/tools/move_to_location.py): it scans the temp            *)
(* directories of the configured channels and moves the files whose size   *)
(* did not change since it last looked, while the recorders write there.   *)
(*                                                                         *)
(* The recorders (src/recorder/live_stream_recorder.py and                 *)
(* src/recorder/live_chat_recorder.py): each polls whether its channel is  *)
(* live and runs yt-dlp as a capture subprocess while it is.               *)
(*                                                                         *)
(* Each specification runs one of the programs; the variables of the       *)
(* others keep their idle values.                                          *)
(*                                                                         *)
(* Times.  The script keeps start/end/duration as float seconds and        *)
(* message times as integer milliseconds.  The model keeps every time as   *)
(* an integer number of milliseconds; the variables that the script keeps  *)
(* in seconds carry the script's names and hold seconds * 1000.  The       *)
(* inputs are whole seconds and the frame rates small, where the float     *)
(* expressions of the script and the integer expressions below agree.      *)
(***************************************************************************)
EXTENDS Integers, Sequences, FiniteSets, TLC

VARIABLES
    args,                   \* the parsed command line (a record)
    raw,                    \* the chat file as read from the disk
    actions,                \* the loaded transcript: a sequence of raw actions
    pc,                     \* the script's position
    first_ts_usec,          \* minimum timestampUsec of the transcript, or None
    messages,               \* the normalised messages
    end_time_seconds,       \* render end (ms)
    duration_seconds,       \* render duration (ms)
    fallback,               \* history: was the timing fallback applied
    pre,                    \* history: timeline just before the fallback test
    encoder,                \* the ffmpeg subprocess: "none", "running", "closed", "exited"
    num_frames,             \* number of frames of the frame loop
    frame,                  \* the loop variable i: next frame to process
    current_message_index,  \* the cursor
    redraw,                 \* the dirty flag
    img,                    \* the raster buffer: the block list last drawn into it
    draws,                  \* history: the frames for which DrawChat was invoked
    written,                \* history: the writes to the encoder's stdin, in order
    step,                   \* history: what the last frame iteration did
    exit_msg,               \* the SystemExit message, "" when none
    cache,                  \* the asset cache: cache key -> image
    fetched,                \* history: the fetches made (requests.get), in order
    disk,                   \* the image files of the cache folder (their keys)
    fetch_fails,            \* the URLs whose fetch or decode fails
    channellist,            \* channellist.yaml: the list of channel entries
    edits,                  \* history: how often channellist.yaml was rewritten
    running_processes,      \* orchestrator: channel name -> its two recorders
    mover_proc,             \* orchestrator: the mover process, or NoProc
    shutting_down,          \* orchestrator: the flag of cleanup
    processes,              \* the processes the orchestrator started, by pid
    helper,                 \* orchestrator: position and locals of main and cleanup
    signals,                \* history: the signals delivered to the orchestrator
    seen_sizes,             \* mover: path -> size at the last look
    temp,                   \* the files below ./temp and who still writes them
    scan,                   \* history: what the last scan_once did
    recorder,               \* a recorder: position, locals and flag of its main
    captures                \* the yt-dlp subprocesses the recorder started

vars == << args, raw, actions, pc, first_ts_usec, messages, end_time_seconds,
           duration_seconds, fallback, pre, encoder, num_frames, frame,
           current_message_index, redraw, img, draws, written, step, exit_msg,
           cache, fetched, disk, fetch_fails, channellist, edits,
           running_processes, mover_proc, shutting_down, processes, helper,
           signals, seen_sizes, temp, scan, recorder, captures >>

\* the variables of the renderer
chat_to_video ==
    << args, raw, actions, pc, first_ts_usec, messages, end_time_seconds,
       duration_seconds, fallback, pre, encoder, num_frames, frame,
       current_message_index, redraw, img, draws, written, step, exit_msg,
       cache, fetched, disk, fetch_fails >>

\* the configuration file and its history
config == << channellist, edits >>

\* the variables of the orchestrator (live_recording_helper.py)
orchestrator == << running_processes, mover_proc, shutting_down, processes,
                   helper, signals >>

\* the variables of the mover (tools/move_to_location.py)
mover == << seen_sizes, temp, scan >>

\* everything outside the renderer and the recorders
supervision == << config, orchestrator, mover >>

\* the variables of a recorder (recorder/live_stream_recorder.py and
\* recorder/live_chat_recorder.py)
recorders == << recorder, captures >>

\* the asset cache and the world it is filled from
assets == << cache, fetched, disk, fetch_fails >>

-----------------------------------------------------------------------------
(* Bounds of the model. *)

\* longest transcript (number of raw actions) drawn by the bounded inputs
MaxActions == 3

\* Python's None where the script keeps an optional integer
None == -1

\* chat style constants (multiplied by the chat scale in the script)
AvatarSize == 24
LineHeight == 16
AvatarPadding == 16
AuthorPadding == 8
BlockPadding == 8

-----------------------------------------------------------------------------
(* Generic helpers. *)

Max(a, b) == IF a >= b THEN a ELSE b

Min(a, b) == IF a <= b THEN a ELSE b

Range(s) == { s[k] : k \in DOMAIN s }

SeqsUpTo(S, n) == UNION { [1..k -> S] : k \in 1..n }

RECURSIVE SumHeights(_)
SumHeights(blocks) ==
    IF blocks = << >> THEN 0
    ELSE Head(blocks).message_height + SumHeights(Tail(blocks))

-----------------------------------------------------------------------------
(* Raw actions.  A raw action is a record                                  *)
(*   wrapper   : "replay" (replayChatItemAction), "live"                   *)
(*               (addChatItemAction) or "none" (neither key)               *)
(*   hasOffset : the replay wrapper carries videoOffsetTimeMsec            *)
(*   offset    : its value (ms)                                            *)
(*   subs      : the sub-actions of a replay wrapper, or the one item of a *)
(*               live wrapper; each sub is a record                        *)
(*                 renderer : pick_renderer_from_item finds a renderer     *)
(*                 hasTs    : that renderer carries timestampUsec          *)
(*                 ts       : its value (usec)                             *)
(*                 author_w : pixel width of the author label              *)
(*                 runs     : the tokens of the message: each a record     *)
(*                            [type, w, url, sep] (0 text word, 1 emoji;   *)
(*                            w pixels; url: the URL of the emoji image;   *)
(*                            sep: the text holds a Unicode line           *)
(*                            boundary such as U+2028 or U+0085, which     *)
(*                            JSON allows unescaped inside a string)       *)
(*                 avatar_url : the URL of the author's photo, NoUrl when  *)
(*                            the renderer has none                        *)
(*                 bad      : the field of the renderer that has not the   *)
(*                            expected shape: "none", "ts" (timestampUsec  *)
(*                            is not a number), "author" (authorName is    *)
(*                            not an object) or "runs" (message is not an  *)
(*                            object)                                      *)
(***************************************************************************)

\* a URL: the part GetCachedImageKey keeps of it, and the rest (protocol,
\* extension, the characters it replaces by '_')
Url(key, ext) == [key |-> key, ext |-> ext]

\* the empty URL
NoUrl == Url("", "")

Sub(renderer, hasTs, ts, author_w, runs) ==
    [renderer |-> renderer, hasTs |-> hasTs, ts |-> ts,
     author_w |-> author_w, runs |-> runs, bad |-> "none", avatar_url |-> NoUrl]

\* the sub-action sub with an author photo
WithAvatar(sub, url) == [sub EXCEPT !.avatar_url = url]

\* the sub-action sub with one field of its renderer malformed
Malformed(sub, field) == [sub EXCEPT !.bad = field]

Word(w) == [type |-> 0, w |-> w, url |-> NoUrl, sep |-> FALSE]

\* a text that holds a Unicode line boundary
WordWithSeparator(w) == [type |-> 0, w |-> w, url |-> NoUrl, sep |-> TRUE]

Emoji(w, url) == [type |-> 1, w |-> w, url |-> url, sep |-> FALSE]

SmileUrl == Url("smile", "png")

HeartUrl == Url("heart", "png")

ShortRuns == << Word(40) >>

LongRuns == << Word(150), Word(150), Word(150) >>

\* words and emoji: two emoji images, a word wider than the canvas, and
\* lines of more than one token
MixedRuns ==
    << Word(40), Emoji(16, SmileUrl), Emoji(16, HeartUrl), Word(400), Word(150),
       Emoji(16, SmileUrl) >>

Replay(hasOffset, offset, subs) ==
    [wrapper |-> "replay", hasOffset |-> hasOffset, offset |-> offset, subs |-> subs]

Live(sub) ==
    [wrapper |-> "live", hasOffset |-> FALSE, offset |-> 0, subs |-> << sub >>]

Other == [wrapper |-> "none", hasOffset |-> FALSE, offset |-> 0, subs |-> << >>]

\* a replay action with an offset and one text message
ReplayAt(t, runs) == Replay(TRUE, t, << Sub(TRUE, TRUE, 0, 30, runs) >>)

\* a live action with a timestamp and one text message
LiveAt(ts, runs) == Live(Sub(TRUE, TRUE, ts, 30, runs))

-----------------------------------------------------------------------------
(* _load_chat_actions.  The chat file is a record                          *)
(*   container : "object" (one JSON object with an 'actions' list),        *)
(*               "list" (one JSON array) or "lines" (lines of text)        *)
(*   items     : the elements of the list of an "object" or "list" file,   *)
(*               or the lines (ended by a newline) of a "lines" file; each *)
(*               a record                                                  *)
(*                 kind : "json" (the text parses as JSON), "garbage" (it  *)
(*                        does not) or "blank" (strip() leaves nothing)    *)
(*                 obj  : the raw action a "json" item parses to           *)
(***************************************************************************)

JsonLine(obj) == [kind |-> "json", obj |-> obj]

GarbageLine == [kind |-> "garbage", obj |-> Other]

BlankLine == [kind |-> "blank", obj |-> Other]

AsObject(acts) ==
    [container |-> "object", items |-> [k \in DOMAIN acts |-> JsonLine(acts[k])]]

AsList(acts) ==
    [container |-> "list", items |-> [k \in DOMAIN acts |-> JsonLine(acts[k])]]

AsLines(acts) ==
    [container |-> "lines", items |-> [k \in DOMAIN acts |-> JsonLine(acts[k])]]

IsNonBlank(line) == line.kind # "blank"

\* the lines that are left when the blank ones are skipped
NonBlank(items) == SelectSeq(items, IsNonBlank)

Objects(items) == [k \in DOMAIN items |-> items[k].obj]

\* json.loads(raw) takes the whole text: one JSON value, white space around it
WholeFileParses(f) ==
    \/ f.container \in {"object", "list"}
    \/ /\ f.container = "lines"
       /\ Len(NonBlank(f.items)) = 1
       /\ NonBlank(f.items)[1].kind = "json"

\* the try block: ok is FALSE when it raises (json.loads fails, or the value
\* is neither of the three accepted structures)
WholeFile(f) ==
    IF ~WholeFileParses(f) THEN [ok |-> FALSE, actions |-> << >>]
    ELSE IF f.container \in {"object", "list"}
         THEN [ok |-> TRUE, actions |-> Objects(f.items)]
    ELSE LET data == NonBlank(f.items)[1].obj IN
         IF data.wrapper \in {"replay", "live"}
         THEN [ok |-> TRUE, actions |-> << data >>]
         ELSE [ok |-> FALSE, actions |-> << >>]

\* a line loop that gives up at the first line that does not parse
RECURSIVE LineDelimitedUntilGarbage(_, _)
LineDelimitedUntilGarbage(lines, k) ==
    IF k > Len(lines) THEN << >>
    ELSE IF lines[k].kind = "blank" THEN LineDelimitedUntilGarbage(lines, k + 1)
    ELSE IF lines[k].kind = "json"
         THEN << lines[k].obj >> \o LineDelimitedUntilGarbage(lines, k + 1)
    ELSE << >>

\* the line-delimited fallback: blank lines and lines that do not parse are
\* skipped
RECURSIVE LineDelimited(_, _)
LineDelimited(lines, k) ==
    IF k > Len(lines) THEN << >>
    ELSE IF lines[k].kind = "blank" THEN LineDelimited(lines, k + 1)
    ELSE IF lines[k].kind = "json"
         THEN << lines[k].obj >> \o LineDelimited(lines, k + 1)
    ELSE LineDelimited(lines, k + 1)

\* the text of the JSON object holds a line boundary inside a string
HoldsSeparator(obj) ==
    \E j \in DOMAIN obj.subs :
        \E t \in DOMAIN obj.subs[j].runs : obj.subs[j].runs[t].sep

\* raw.splitlines(): the text is cut at every line boundary that
\* str.splitlines knows, not only at the newlines: a JSON line that holds
\* one inside a string comes out as two pieces, and neither parses
RECURSIVE SplitLines(_, _)
SplitLines(items, k) ==
    IF k > Len(items) THEN << >>
    ELSE (IF items[k].kind = "json" /\ HoldsSeparator(items[k].obj)
          THEN << GarbageLine, GarbageLine >>
          ELSE << items[k] >>) \o SplitLines(items, k + 1)

LoadChatActions(f) ==
    IF WholeFile(f).ok THEN WholeFile(f).actions
    ELSE LineDelimited(SplitLines(f.items, 1), 1)

-----------------------------------------------------------------------------
(* _extract_renderer_and_times: (renderer, ts_usec, offset_ms) of one raw  *)
(* action.  The result is a record; has_renderer is "renderer is not None" *)
(* and sub is the index of the sub-action whose renderer was returned.     *)
(***************************************************************************)

NoResult == [has_renderer |-> FALSE, sub |-> 0, ts_usec |-> None,
             has_offset |-> FALSE, offset_ms |-> 0]

\* index of the first sub-action with a renderer, 0 when there is none
RECURSIVE FirstRenderer(_, _)
FirstRenderer(subs, k) ==
    IF k > Len(subs) THEN 0
    ELSE IF subs[k].renderer THEN k
    ELSE FirstRenderer(subs, k + 1)

TsOf(sub) == IF sub.hasTs THEN sub.ts ELSE None

\* int(r.get('videoOffsetTimeMsec', 0))
ReplayOffset(obj) == IF obj.hasOffset THEN obj.offset ELSE 0

ExtractReplay(obj) ==
    LET k == FirstRenderer(obj.subs, 1) IN
    IF k > 0
    THEN [has_renderer |-> TRUE, sub |-> k, ts_usec |-> TsOf(obj.subs[k]),
          has_offset |-> TRUE, offset_ms |-> ReplayOffset(obj)]
    ELSE [has_renderer |-> FALSE, sub |-> 0, ts_usec |-> None,
          has_offset |-> TRUE, offset_ms |-> ReplayOffset(obj)]

ExtractLive(obj) ==
    IF obj.subs[1].renderer
    THEN [has_renderer |-> TRUE, sub |-> 1, ts_usec |-> TsOf(obj.subs[1]),
          has_offset |-> FALSE, offset_ms |-> 0]
    ELSE NoResult

ExtractRendererAndTimes(obj) ==
    IF obj.wrapper = "replay" THEN ExtractReplay(obj)
    ELSE IF obj.wrapper = "live" THEN ExtractLive(obj)
    ELSE NoResult

\* int(renderer.get('timestampUsec')) raises ValueError for the renderer that
\* is returned: nothing in the function catches it
ExtractRaises(obj) ==
    LET r == ExtractRendererAndTimes(obj) IN
    /\ r.has_renderer
    /\ obj.subs[r.sub].hasTs
    /\ obj.subs[r.sub].bad = "ts"

\* the smallest member of a non-empty set of indices
FirstOf(S) == CHOOSE k \in S : \A j \in S : k <= j

-----------------------------------------------------------------------------
(* First pass: the base timestamp of live logs. *)

RECURSIVE FirstTs(_, _, _)
FirstTs(acts, k, acc) ==
    IF k > Len(acts) THEN acc
    ELSE LET ts == ExtractRendererAndTimes(acts[k]).ts_usec IN
         FirstTs(acts, k + 1,
                 IF ts # None THEN (IF acc = None THEN ts ELSE Min(acc, ts))
                 ELSE acc)

-----------------------------------------------------------------------------
(* Normalisation of one action to a message.                               *)
(* A message is [time_ms, src, author_w, runs]: src is the index of the    *)
(* raw action it came from (its place in the transcript).                  *)
(***************************************************************************)

\* max(0, int((ts_usec - first_ts_usec) / 1000))
UsecToMs(ts, first) == Max(0, (ts - first) \div 1000)

\* has the action usable timing
HasTime(r, first) ==
    r.has_offset \/ (r.ts_usec # None /\ first # None)

TimeMs(r, first) ==
    IF r.has_offset THEN r.offset_ms ELSE UsecToMs(r.ts_usec, first)

\* the time window filter: the message is dropped
OutsideWindow(time_ms, end) == end # 0 /\ time_ms > end

\* the runs loop is inside try/except: a message that is not an object
\* leaves runs empty.  if not runs: runs.append((0, ""))   (the placeholder is
\* one empty word)
RunsOf(sub) ==
    IF sub.bad = "runs" \/ sub.runs = << >> THEN << Word(4) >> ELSE sub.runs

\* renderer.get('authorName', {}).get('simpleText', '') raises AttributeError
\* for action k: the statement is outside every try block, and it is reached
\* by the actions that passed the timing and the window tests
AuthorRaises(acts, k, first, end) ==
    LET r == ExtractRendererAndTimes(acts[k]) IN
    /\ r.has_renderer
    /\ HasTime(r, first)
    /\ ~OutsideWindow(TimeMs(r, first), end)
    /\ acts[k].subs[r.sub].bad = "author"

\* an extraction loop that ends at the first message behind the window end
RECURSIVE NormalizeUntilOutside(_, _, _, _)
NormalizeUntilOutside(acts, k, first, end) ==
    IF k > Len(acts) THEN << >>
    ELSE LET r == ExtractRendererAndTimes(acts[k])
             rest == NormalizeUntilOutside(acts, k + 1, first, end)
         IN  IF ~r.has_renderer THEN rest
             ELSE IF ~HasTime(r, first) THEN rest
             ELSE IF OutsideWindow(TimeMs(r, first), end) THEN << >>
             ELSE << [time_ms |-> TimeMs(r, first), src |-> k,
                      avatar_url |-> acts[k].subs[r.sub].avatar_url,
                      author_w |-> acts[k].subs[r.sub].author_w,
                      runs |-> RunsOf(acts[k].subs[r.sub])] >> \o rest

RECURSIVE Normalize(_, _, _, _)
Normalize(acts, k, first, end) ==
    IF k > Len(acts) THEN << >>
    ELSE LET r == ExtractRendererAndTimes(acts[k])
             rest == Normalize(acts, k + 1, first, end)
         IN  IF ~r.has_renderer THEN rest
             ELSE IF ~HasTime(r, first) THEN rest
             ELSE IF OutsideWindow(TimeMs(r, first), end) THEN rest
             ELSE << [time_ms |-> TimeMs(r, first), src |-> k,
                      avatar_url |-> acts[k].subs[r.sub].avatar_url,
                      author_w |-> acts[k].subs[r.sub].author_w,
                      runs |-> RunsOf(acts[k].subs[r.sub])] >> \o rest

-----------------------------------------------------------------------------
(* Timeline builder. *)

\* a sort that is not stable: m goes before the messages of its own time
RECURSIVE InsertBeforeTies(_, _)
InsertBeforeTies(s, m) ==
    IF s = << >> THEN << m >>
    ELSE IF Head(s).time_ms < m.time_ms
         THEN << Head(s) >> \o InsertBeforeTies(Tail(s), m)
         ELSE << m >> \o s

\* messages.sort(key=lambda m: m[0]): a stable sort.  InsertByTime puts m
\* behind every message of s whose time is not later than m's.
RECURSIVE InsertByTime(_, _)
InsertByTime(s, m) ==
    IF s = << >> THEN << m >>
    ELSE IF Head(s).time_ms <= m.time_ms
         THEN << Head(s) >> \o InsertByTime(Tail(s), m)
         ELSE << m >> \o s

RECURSIVE SortByTime(_)
SortByTime(s) ==
    IF s = << >> THEN << >>
    ELSE InsertByTime(SortByTime(SubSeq(s, 1, Len(s) - 1)), s[Len(s)])

\* max_duration_seconds = messages[-1][0] / 1000.0
MaxDuration(msgs) == msgs[Len(msgs)].time_ms

\* if end_time_seconds == 0: end_time_seconds = max_duration_seconds
DefaultedEnd(end, msgs) == IF end = 0 THEN MaxDuration(msgs) ELSE end

\* duration_seconds = max(0.0, float(end) - float(start))
Duration(end, start) == Max(0, end - start)

\* all(m[0] == messages[0][0] for m in messages)
AllSameTime(msgs) == \A k \in DOMAIN msgs : msgs[k].time_ms = msgs[1].time_ms

\* a fallback test that forgets the transcripts whose times are all equal
DegenerateDurationOnly(duration, msgs) == duration <= 0

\* the test of the timing fallback
Degenerate(duration, msgs) == duration <= 0 \/ AllSameTime(msgs)

\* gap = max(1, int(args.fallback_gap_ms))
Gap(fallback_gap_ms) == Max(1, fallback_gap_ms)

\* the retimed messages: t = 0; for each message: (t, ...); t += gap
Retimed(msgs, gap) ==
    [k \in DOMAIN msgs |-> [msgs[k] EXCEPT !.time_ms = (k - 1) * gap]]

-----------------------------------------------------------------------------
(* Layout engine (DrawChat). *)

chat_scale == args.chat_scale

chat_padding == args.padding * chat_scale

chat_inner_x == chat_padding

chat_inner_width == args.width - (chat_padding * 2)

author_x == chat_inner_x + (AvatarSize * chat_scale) + (AvatarPadding * chat_scale)

chat_line_height == LineHeight * chat_scale

\* runs_x: the pen position behind the author label
runs_x(message) == author_x + message.author_w + (AuthorPadding * chat_scale)

\* a wrap test that looks at the pen only, not at the width of the token
WrapNeededPenOnly(run_x, token_w) == run_x > chat_inner_width

\* if run_x + word_width > chat_inner_width  (the same test for an emoji)
WrapNeeded(run_x, token_w) == run_x + token_w > chat_inner_width

\* GetCachedImageKey: the URL without its protocol and its extension, every
\* character but letters, digits, '_' and '-' replaced by '_'
GetCachedImageKey(url) == url.key

\* no image: cache.get(key) is None
NoImage == NoUrl

\* cache.get(GetCachedImageKey(url)); an image is the URL it was fetched from
CacheGet(url) ==
    IF GetCachedImageKey(url) \in DOMAIN cache
    THEN cache[GetCachedImageKey(url)] ELSE NoImage

\* the tokens the loop places: a word always, an emoji when its image is in
\* the cache
Placed(token) == token.type = 0 \/ CacheGet(token.url) # NoImage

\* the word wrap of one message: the number of lines its tokens take
RECURSIVE WrapLines(_, _, _, _)
WrapLines(runs, k, run_x, num_lines) ==
    IF k > Len(runs) THEN num_lines
    ELSE IF ~Placed(runs[k]) THEN WrapLines(runs, k + 1, run_x, num_lines)
    ELSE IF WrapNeeded(run_x, runs[k].w)
         THEN WrapLines(runs, k + 1, author_x + runs[k].w, num_lines + 1)
         ELSE WrapLines(runs, k + 1, run_x + runs[k].w, num_lines)

NumLines(message) == WrapLines(message.runs, 1, runs_x(message), 1)

\* runs_draw of one message: for every token placed its type, pen position
\* (run_x, run_y) and width, in the order of the tokens
RECURSIVE RunsDraw(_, _, _, _)
RunsDraw(runs, k, run_x, run_y) ==
    IF k > Len(runs) THEN << >>
    ELSE IF ~Placed(runs[k]) THEN RunsDraw(runs, k + 1, run_x, run_y)
    ELSE IF WrapNeeded(run_x, runs[k].w)
         THEN << [type |-> runs[k].type, run_x |-> author_x,
                  run_y |-> run_y + chat_line_height, w |-> runs[k].w,
                  content |-> CacheGet(runs[k].url)] >>
              \o RunsDraw(runs, k + 1, author_x + runs[k].w,
                          run_y + chat_line_height)
         ELSE << [type |-> runs[k].type, run_x |-> run_x, run_y |-> run_y,
                  w |-> runs[k].w, content |-> CacheGet(runs[k].url)] >>
              \o RunsDraw(runs, k + 1, run_x + runs[k].w, run_y)

MessageHeight(message) ==
    IF NumLines(message) = 1
    THEN (AvatarSize * chat_scale) + (BlockPadding * chat_scale)
    ELSE (NumLines(message) * LineHeight * chat_scale) + (BlockPadding * chat_scale)

\* the block of message i (0-based, as in the script)
\* avatar is the image pasted for the author (NoImage: none is pasted); the
\* author label is drawn for every block
Block(i) ==
    [index |-> i, message_height |-> MessageHeight(messages[i + 1]),
     runs_draw |-> RunsDraw(messages[i + 1].runs, 1, runs_x(messages[i + 1]), 0),
     avatar |-> CacheGet(messages[i + 1].avatar_url),
     author_w |-> messages[i + 1].author_w]

\* the first overflow policy: leave the loop before the block is appended
BreakBeforeAppend(no_more_space) == ~args.no_clip /\ no_more_space

\* a walk that does not stop behind the block that overflows
NeverBreakAfterAppend(no_more_space) == FALSE

\* the second overflow policy: leave the loop after the block is appended
BreakAfterAppend(no_more_space) == args.no_clip /\ no_more_space

\* for i in range(current_message_index, -1, -1): ...
RECURSIVE LayoutWalk(_, _, _)
LayoutWalk(i, y, layout) ==
    IF i < 0 THEN layout
    ELSE LET y2 == y + MessageHeight(messages[i + 1])
             no_more_space == y2 > args.height
         IN  IF BreakBeforeAppend(no_more_space) THEN layout
             ELSE IF BreakAfterAppend(no_more_space) THEN Append(layout, Block(i))
             ELSE LayoutWalk(i - 1, y2, Append(layout, Block(i)))

\* the layout DrawChat computes, then draws, for cursor c
DrawChat(c) == LayoutWalk(c, 0, << >>)

-----------------------------------------------------------------------------
(* Frame driver. *)

fps == args.frame_rate

\* Python's round(): to the nearest integer, a tie to the even one (n >= 0, d > 0)
Round(n, d) ==
    LET q == n \div d
        r == n % d
    IN  IF 2 * r < d THEN q
        ELSE IF 2 * r > d THEN q + 1
        ELSE IF q % 2 = 0 THEN q ELSE q + 1

\* a frame count for a loop that also makes the frame at the end of the window
NumFramesInclusive(duration) == Round(fps * duration, 1000) + 1

\* a frame count that truncates instead of rounding
NumFramesTruncated(duration) == (fps * duration) \div 1000

\* num_frames = int(round(fps * duration_seconds))
NumFrames(duration) == Round(fps * duration, 1000)

\* t_ms = int((start_time_seconds + (i / fps)) * 1000)
FrameTime(i) == ((args.start * fps) + (i * 1000)) \div fps

\* the test of the cursor loop: is the message of (0-based) index j due at t_ms
Due(t_ms, j) == t_ms > messages[j + 1].time_ms

\* while current_message_index + 1 < len(messages) and ...: current_message_index += 1
RECURSIVE Advance(_, _)
Advance(c, t_ms) ==
    IF c + 1 < Len(messages) /\ Due(t_ms, c + 1) THEN Advance(c + 1, t_ms) ELSE c

\* len(img.tobytes()): 3 bytes per pixel for 'RGB', 4 for 'RGBA'
BytesPerPixel == IF args.transparent THEN 4 ELSE 3

FrameBytes == args.width * args.height * BytesPerPixel

\* the image as created by Image.new, before anything is drawn
NewImage == [cleared |-> FALSE, blocks |-> << >>]

NoStep == [i |-> -1, t_ms |-> 0, before |-> -1, after |-> -1,
           dirty |-> FALSE, drew |-> FALSE, failed |-> FALSE, wrote |-> FALSE]

-----------------------------------------------------------------------------
(* The script, step by step. *)

\* line 206: load the chat file
LoadChat ==
    /\ pc = "load"
    /\ actions' = LoadChatActions(raw)
    /\ pc' = "first_pass"
    /\ UNCHANGED << recorders, supervision, assets, args, raw, first_ts_usec, messages, end_time_seconds,
                    duration_seconds, fallback, pre, encoder, num_frames, frame,
                    current_message_index, redraw, img, draws, written, step,
                    exit_msg >>

\* lines 208-213: the first pass over the actions
\* an exception that nothing catches ends the script with a traceback
FirstPass ==
    /\ pc = "first_pass"
    /\ LET raising == { k \in DOMAIN actions : ExtractRaises(actions[k]) } IN
       IF raising # {}
       THEN /\ first_ts_usec' =
                   FirstTs(SubSeq(actions, 1, FirstOf(raising) - 1), 1, None)
            /\ pc' = "crash"
            /\ exit_msg' = "ValueError"
       ELSE /\ first_ts_usec' = FirstTs(actions, 1, None)
            /\ pc' = "normalize"
            /\ UNCHANGED exit_msg
    /\ UNCHANGED << recorders, supervision, assets, args, raw, actions, messages, end_time_seconds,
                    duration_seconds, fallback, pre, encoder, num_frames, frame,
                    current_message_index, redraw, img, draws, written, step >>

\* lines 215-267: build the messages; SystemExit when none is left
BuildMessages ==
    /\ pc = "normalize"
    /\ LET raising == { k \in DOMAIN actions :
                          AuthorRaises(actions, k, first_ts_usec, end_time_seconds) }
       IN
       IF raising # {}
       THEN /\ messages' = Normalize(SubSeq(actions, 1, FirstOf(raising) - 1), 1,
                                     first_ts_usec, end_time_seconds)
            /\ pc' = "crash"
            /\ exit_msg' = "AttributeError"
       ELSE /\ messages' = Normalize(actions, 1, first_ts_usec, end_time_seconds)
            /\ IF messages' = << >>
               THEN /\ pc' = "exit"
                    /\ exit_msg' =
                          IF end_time_seconds # 0
                          THEN "Error: No messages within selected time window"
                          ELSE "Error: No messages found in the chat file"
               ELSE /\ pc' = "sort"
                    /\ UNCHANGED exit_msg
    /\ UNCHANGED << recorders, supervision, assets, args, raw, actions, first_ts_usec, end_time_seconds,
                    duration_seconds, fallback, pre, encoder, num_frames, frame,
                    current_message_index, redraw, img, draws, written, step >>

\* lines 269-276: sort, default the end, compute the duration
SortAndDuration ==
    /\ pc = "sort"
    /\ messages' = SortByTime(messages)
    /\ end_time_seconds' = DefaultedEnd(end_time_seconds, messages')
    /\ duration_seconds' = Duration(end_time_seconds', args.start)
    /\ pre' = [messages |-> messages', end |-> end_time_seconds',
               duration |-> duration_seconds']
    /\ pc' = "fallback"
    /\ UNCHANGED << recorders, supervision, assets, args, raw, actions, first_ts_usec, fallback, encoder, num_frames,
                    frame, current_message_index, redraw, img, draws, written,
                    step, exit_msg >>

\* lines 279-290: the timing fallback
TimingFallback ==
    /\ pc = "fallback"
    /\ Degenerate(duration_seconds, messages)
    /\ messages' = Retimed(messages, Gap(args.fallback_gap_ms))
    /\ end_time_seconds' = DefaultedEnd(end_time_seconds, messages')
    /\ duration_seconds' = Duration(end_time_seconds', args.start)
    /\ fallback' = TRUE
    /\ pc' = "guard"
    /\ UNCHANGED << recorders, supervision, assets, args, raw, actions, first_ts_usec, pre, encoder, num_frames,
                    frame, current_message_index, redraw, img, draws, written,
                    step, exit_msg >>

\* line 279, the test fails: the timeline is kept
KeepTiming ==
    /\ pc = "fallback"
    /\ ~Degenerate(duration_seconds, messages)
    /\ pc' = "guard"
    /\ UNCHANGED << recorders, supervision, assets, args, raw, actions, first_ts_usec, messages, end_time_seconds,
                    duration_seconds, fallback, pre, encoder, num_frames, frame,
                    current_message_index, redraw, img, draws, written, step,
                    exit_msg >>

\* a guard that lets every duration pass
DurationGuardOpen ==
    /\ pc = "guard"
    /\ pc' = "ffmpeg"
    /\ UNCHANGED << recorders, supervision, assets, args, raw, actions, first_ts_usec, messages,
                    end_time_seconds, duration_seconds, fallback, pre, encoder,
                    num_frames, frame, current_message_index, redraw, img, draws,
                    written, step, exit_msg >>

\* lines 293-295: guard again after the fallback
DurationGuard ==
    /\ pc = "guard"
    /\ IF duration_seconds <= 0
       THEN /\ pc' = "exit"
            /\ exit_msg' = "Error: Computed duration is 0s"
       ELSE /\ pc' = "ffmpeg"
            /\ UNCHANGED exit_msg
    /\ UNCHANGED << recorders, supervision, assets, args, raw, actions, first_ts_usec, messages, end_time_seconds,
                    duration_seconds, fallback, pre, encoder, num_frames, frame,
                    current_message_index, redraw, img, draws, written, step >>

\* lines 298-322: start ffmpeg with a pipe as stdin, create the image
LaunchEncoder ==
    /\ pc = "ffmpeg"
    /\ encoder' = "running"
    /\ img' = NewImage
    /\ pc' = "prefetch"
    /\ UNCHANGED << recorders, supervision, assets, args, raw, actions, first_ts_usec, messages, end_time_seconds,
                    duration_seconds, fallback, pre, num_frames, frame,
                    current_message_index, redraw, draws, written, step,
                    exit_msg >>

\* cache = {}
EmptyCache == [k \in {} |-> NoImage]

\* an image opened from a file of the cache folder
DiskImage(key) == Url(key, "disk")

\* with --use-cache the images of the cache folder are loaded into the cache
LoadedCache ==
    IF args.use_cache THEN [k \in disk |-> DiskImage(k)] ELSE EmptyCache

IsUrl(url) == url # NoUrl

IsEmoji(token) == token.type = 1

\* for _, avatar_url, _, _ in messages: if not avatar_url: continue
AvatarUrls(msgs) == SelectSeq([k \in DOMAIN msgs |-> msgs[k].avatar_url], IsUrl)

\* for _, _, _, runs in messages: for run in runs: if run[0] == 1
RECURSIVE EmojiUrls(_, _)
EmojiUrls(msgs, k) ==
    IF k > Len(msgs) THEN << >>
    ELSE LET emoji == SelectSeq(msgs[k].runs, IsEmoji) IN
         [t \in DOMAIN emoji |-> emoji[t].url] \o EmojiUrls(msgs, k + 1)

\* one pre-download pass over urls, from the state st = [cache, fetched]: a
\* URL whose key is in the cache is not fetched; a fetch or decode that raises
\* only prints a warning
RECURSIVE Download(_, _, _)
Download(urls, k, st) ==
    IF k > Len(urls) THEN st
    ELSE LET cache_key == GetCachedImageKey(urls[k]) IN
         IF cache_key \in DOMAIN st.cache THEN Download(urls, k + 1, st)
         ELSE IF urls[k] \in fetch_fails
              THEN Download(urls, k + 1,
                            [st EXCEPT !.fetched =
                                Append(@, [url |-> urls[k], ok |-> FALSE])])
              ELSE Download(urls, k + 1,
                            [cache |-> st.cache @@ (cache_key :> urls[k]),
                             fetched |-> Append(st.fetched,
                                                [url |-> urls[k], ok |-> TRUE])])

\* lines 326-401: load the cache folder, pre-download the avatars, then the
\* emoji; with --use-cache every image fetched is saved to the cache folder
Prefetch ==
    /\ pc = "prefetch"
    /\ LET loaded == [cache |-> LoadedCache, fetched |-> << >>]
           avatars == IF args.skip_avatars THEN loaded
                      ELSE Download(AvatarUrls(messages), 1, loaded)
           emojis == IF args.skip_emojis THEN avatars
                     ELSE Download(EmojiUrls(messages, 1), 1, avatars)
       IN  /\ cache' = emojis.cache
           /\ fetched' = emojis.fetched
           /\ disk' = IF args.use_cache THEN disk \cup DOMAIN emojis.cache ELSE disk
    /\ pc' = "count"
    /\ UNCHANGED << recorders, supervision, fetch_fails, args, raw, actions, first_ts_usec, messages,
                    end_time_seconds, duration_seconds, fallback, pre, encoder,
                    num_frames, frame, current_message_index, redraw, img, draws,
                    written, step, exit_msg >>

\* lines 405, 491-495: the cursor, the dirty flag and the frame count
CountFrames ==
    /\ pc = "count"
    /\ current_message_index' = -1
    /\ redraw' = TRUE
    /\ num_frames' = NumFrames(duration_seconds)
    /\ frame' = 0
    /\ IF num_frames' < 1
       THEN /\ pc' = "exit"
            /\ exit_msg' = "Error: Computed frame count"
       ELSE /\ pc' = "frames"
            /\ UNCHANGED exit_msg
    /\ UNCHANGED << recorders, supervision, assets, args, raw, actions, first_ts_usec, messages, end_time_seconds,
                    duration_seconds, fallback, pre, encoder, img, draws,
                    written, step >>

\* a dirty flag that is never cleared
DirtyAlways(c) == TRUE

\* lines 500-504: the frame is drawn when the flag is set or the cursor moved to c
Dirty(c) == redraw \/ c # current_message_index

\* what one iteration of the frame loop computes before it draws
StepOf(i) ==
    LET t_ms == FrameTime(i)
        c == Advance(current_message_index, t_ms)
    IN  [i |-> i, t_ms |-> t_ms, before |-> current_message_index, after |-> c,
         dirty |-> Dirty(c),
         drew |-> FALSE, failed |-> FALSE, wrote |-> FALSE]

\* the write of the buffer buf for frame i
Write(i, buf) == Append(written, [i |-> i, nbytes |-> FrameBytes, img |-> buf])

\* a drawing step that fetches the images its messages miss
FrameDrawnFetching ==
    /\ pc = "frames"
    /\ frame < num_frames
    /\ LET st == StepOf(frame)
           got == Download(AvatarUrls(messages) \o EmojiUrls(messages, 1), 1,
                           [cache |-> cache, fetched |-> fetched])
       IN
       /\ st.dirty
       /\ current_message_index' = st.after
       /\ img' = [cleared |-> TRUE, blocks |-> DrawChat(st.after)]
       /\ draws' = draws \cup {frame}
       /\ redraw' = FALSE
       /\ written' = Write(frame, img')
       /\ step' = [st EXCEPT !.drew = TRUE, !.wrote = TRUE]
       /\ cache' = got.cache
       /\ fetched' = got.fetched
    /\ frame' = frame + 1
    /\ UNCHANGED << recorders, supervision, disk, fetch_fails, args, raw, actions, pc, first_ts_usec,
                    messages, end_time_seconds, duration_seconds, fallback, pre,
                    encoder, num_frames, exit_msg >>

\* lines 497-517: an iteration that draws (the frame is dirty) and writes
FrameDrawn ==
    /\ pc = "frames"
    /\ frame < num_frames
    /\ LET st == StepOf(frame) IN
       /\ st.dirty
       /\ current_message_index' = st.after
       /\ img' = [cleared |-> TRUE, blocks |-> DrawChat(st.after)]
       /\ draws' = draws \cup {frame}
       /\ redraw' = FALSE
       /\ written' = Write(frame, img')
       /\ step' = [st EXCEPT !.drew = TRUE, !.wrote = TRUE]
    /\ frame' = frame + 1
    /\ UNCHANGED << recorders, supervision, assets, args, raw, actions, pc, first_ts_usec, messages, end_time_seconds,
                    duration_seconds, fallback, pre, encoder, num_frames,
                    exit_msg >>

\* lines 497-517: an iteration that reuses the buffer (the frame is not dirty)
FrameReused ==
    /\ pc = "frames"
    /\ frame < num_frames
    /\ LET st == StepOf(frame) IN
       /\ ~st.dirty
       /\ current_message_index' = st.after
       /\ written' = Write(frame, img)
       /\ step' = [st EXCEPT !.wrote = TRUE]
    /\ frame' = frame + 1
    /\ UNCHANGED << recorders, supervision, assets, args, raw, actions, pc, first_ts_usec, messages, end_time_seconds,
                    duration_seconds, fallback, pre, encoder, num_frames, redraw,
                    img, draws, exit_msg >>

\* a draw error that is logged while the loop goes on with the next frame
FrameDrawFailsAndContinues ==
    /\ pc = "frames"
    /\ frame < num_frames
    /\ LET st == StepOf(frame) IN
       /\ st.dirty
       /\ current_message_index' = st.after
       /\ draws' = draws \cup {frame}
       /\ step' = [st EXCEPT !.drew = TRUE, !.failed = TRUE]
    /\ frame' = frame + 1
    /\ UNCHANGED << recorders, supervision, assets, args, raw, actions, pc, first_ts_usec, messages,
                    end_time_seconds, duration_seconds, fallback, pre, encoder,
                    num_frames, redraw, img, written, exit_msg >>

\* lines 504-513: DrawChat raises; the loop is left without a write
FrameDrawFails ==
    /\ pc = "frames"
    /\ frame < num_frames
    /\ LET st == StepOf(frame) IN
       /\ st.dirty
       /\ current_message_index' = st.after
       /\ draws' = draws \cup {frame}
       /\ step' = [st EXCEPT !.drew = TRUE, !.failed = TRUE]
    /\ pc' = "close"
    /\ UNCHANGED << recorders, supervision, assets, args, raw, actions, first_ts_usec, messages, end_time_seconds,
                    duration_seconds, fallback, pre, encoder, num_frames, frame,
                    redraw, img, written, exit_msg >>

\* the range of the frame loop is exhausted
LoopEnds ==
    /\ pc = "frames"
    /\ frame >= num_frames
    /\ pc' = "close"
    /\ UNCHANGED << recorders, supervision, assets, args, raw, actions, first_ts_usec, messages, end_time_seconds,
                    duration_seconds, fallback, pre, encoder, num_frames, frame,
                    current_message_index, redraw, img, draws, written, step,
                    exit_msg >>

\* lines 519-521: close the encoder's stdin and wait for it
CloseEncoder ==
    /\ pc = "close"
    /\ encoder' = "exited"
    /\ pc' = "done"
    /\ UNCHANGED << recorders, supervision, assets, args, raw, actions, first_ts_usec, messages, end_time_seconds,
                    duration_seconds, fallback, pre, num_frames, frame,
                    current_message_index, redraw, img, draws, written, step,
                    exit_msg >>

Next ==
    \/ LoadChat
    \/ FirstPass
    \/ BuildMessages
    \/ SortAndDuration
    \/ TimingFallback
    \/ KeepTiming
    \/ DurationGuard
    \/ LaunchEncoder
    \/ Prefetch
    \/ CountFrames
    \/ FrameDrawn
    \/ FrameReused
    \/ FrameDrawFails
    \/ LoopEnds
    \/ CloseEncoder

-----------------------------------------------------------------------------
(* The configuration file, channellist.yaml, read by the orchestrator and  *)
(* by the mover.                                                           *)

\* one entry of the list under the key channels
Channel(name, target) == [name |-> name, target |-> target]

ChannelA == Channel("a", "out/a")

ChannelB == Channel("b", "out/b")

\* an entry without a target: recorded, never moved
ChannelBNoTarget == Channel("b", "")

\* the contents the file takes in the model; a name may be listed twice
Configs ==
    { << >>, << ChannelA >>, << ChannelB >>, << ChannelA, ChannelB >>,
      << ChannelA, ChannelA >>, << ChannelBNoTarget, ChannelA >> }

\* how often the file is rewritten while the programs run
MaxEdits == 1

\* somebody edits the file
EditConfig ==
    /\ edits < MaxEdits
    /\ \E c \in Configs \ {channellist} : channellist' = c
    /\ edits' = edits + 1

-----------------------------------------------------------------------------
(* The orchestrator, src/live_recording_helper.py.                         *)

\* no process: None, or a key that .get() does not find
NoProc == 0

\* most signals delivered to the orchestrator in one run
MaxSignals == 2

\* subprocess.Popen (lines 45-48, 60-63, 113-116): a new running process,
\* its pid the position in the table
Popen(kind, name) ==
    Append(processes, [kind |-> kind, channel |-> name, state |-> "running"])

\* proc.poll() is None
Polls(ps, pid) == ps[pid].state = "running"

\* stop_proc (lines 74-91): terminate, wait a second, kill when it has not
\* exited by then, after which the process is stopped either way; nothing
\* for a process that has exited already
stop_proc(ps, pid) ==
    IF pid # NoProc /\ Polls(ps, pid)
    THEN [ps EXCEPT ![pid].state = "stopped"]
    ELSE ps

\* running_processes.get(name, {}).get(kind)
ProcOf(name, kind) ==
    IF name \in DOMAIN running_processes THEN running_processes[name][kind]
    ELSE NoProc

\* running_processes.pop(name, None)
Pop(name) == [n \in DOMAIN running_processes \ {name} |-> running_processes[n]]

\* stop_recorder (lines 94-98)
stop_recorder(name) ==
    /\ processes' = stop_proc(stop_proc(processes, ProcOf(name, "video")),
                              ProcOf(name, "chat"))
    /\ running_processes' = Pop(name)

\* the keys of {cfg['name']: cfg for cfg in configs} (line 157), in the
\* order of the dictionary
RECURSIVE DictKeys(_, _)
DictKeys(configs, keys) ==
    IF configs = << >> THEN keys
    ELSE DictKeys(Tail(configs),
                  IF Head(configs).name \in Range(keys) THEN keys
                  ELSE Append(keys, Head(configs).name))

\* the locals of start_recorders before its first Popen
NoProcs == [video |-> NoProc, chat |-> NoProc]

\* main before line 153
HelperStart ==
    [pc |-> "start_mover", active_channels |-> << >>, current_channels |-> {},
     todo |-> << >>, gone |-> {}, procs |-> NoProcs, new |-> NoProc,
     left |-> {}, cleanups |-> 0]

\* the positions of the while loop of main (lines 155-184)
MainLoop == {"load", "start", "start_chat", "record", "stop", "check", "sleep"}

\* start_mover, line 113: the mover is started
StartMover ==
    /\ helper.pc = "start_mover"
    /\ processes' = Popen("mover", "")
    /\ helper' = [helper EXCEPT !.pc = "store_mover", !.new = Len(processes')]
    /\ UNCHANGED << running_processes, mover_proc, shutting_down, signals >>
    /\ UNCHANGED << recorders, chat_to_video, config, mover >>

\* start_mover, line 113: the handle is kept in mover_proc
StoreMover ==
    /\ helper.pc = "store_mover"
    /\ mover_proc' = helper.new
    /\ helper' = [helper EXCEPT !.pc = "load", !.new = NoProc]
    /\ UNCHANGED << running_processes, shutting_down, processes, signals >>
    /\ UNCHANGED << recorders, chat_to_video, config, mover >>

\* lines 156-158: the configuration is read
LoadChannels ==
    /\ helper.pc = "load"
    /\ helper' = [helper EXCEPT !.pc = "start",
                                !.active_channels = DictKeys(channellist, << >>),
                                !.current_channels = DOMAIN running_processes,
                                !.todo = DictKeys(channellist, << >>)]
    /\ UNCHANGED << running_processes, mover_proc, shutting_down, processes, signals >>
    /\ UNCHANGED << recorders, chat_to_video, config, mover >>

\* lines 161-162: a channel that is running already is passed over
PassRunning ==
    /\ helper.pc = "start"
    /\ helper.todo # << >>
    /\ Head(helper.todo) \in helper.current_channels
    /\ helper' = [helper EXCEPT !.todo = Tail(@)]
    /\ UNCHANGED << running_processes, mover_proc, shutting_down, processes, signals >>
    /\ UNCHANGED << recorders, chat_to_video, config, mover >>

\* a loop that starts the recorders of every configured channel
StartVideoRecorderAgain ==
    /\ helper.pc = "start"
    /\ helper.todo # << >>
    /\ processes' = Popen("video", Head(helper.todo))
    /\ helper' = [helper EXCEPT !.pc = "start_chat",
                                !.procs = [NoProcs EXCEPT !.video = Len(processes')]]
    /\ UNCHANGED << running_processes, mover_proc, shutting_down, signals >>
    /\ UNCHANGED << recorders, chat_to_video, config, mover >>

\* lines 162-163, 68: start_recorders starts the video recorder of a new channel
StartVideoRecorder ==
    /\ helper.pc = "start"
    /\ helper.todo # << >>
    /\ Head(helper.todo) \notin helper.current_channels
    /\ processes' = Popen("video", Head(helper.todo))
    /\ helper' = [helper EXCEPT !.pc = "start_chat",
                                !.procs = [NoProcs EXCEPT !.video = Len(processes')]]
    /\ UNCHANGED << running_processes, mover_proc, shutting_down, signals >>
    /\ UNCHANGED << recorders, chat_to_video, config, mover >>

\* lines 69-70: after a second, start_recorders starts the chat recorder
StartChatRecorder ==
    /\ helper.pc = "start_chat"
    /\ processes' = Popen("chat", Head(helper.todo))
    /\ helper' = [helper EXCEPT !.pc = "record", !.procs.chat = Len(processes')]
    /\ UNCHANGED << running_processes, mover_proc, shutting_down, signals >>
    /\ UNCHANGED << recorders, chat_to_video, config, mover >>

\* line 163: the two handles are stored in running_processes
RecordRecorders ==
    /\ helper.pc = "record"
    /\ running_processes' =
          [n \in DOMAIN running_processes \cup {Head(helper.todo)} |->
              IF n = Head(helper.todo) THEN helper.procs ELSE running_processes[n]]
    /\ helper' = [helper EXCEPT !.pc = "start", !.todo = Tail(@), !.procs = NoProcs]
    /\ UNCHANGED << mover_proc, shutting_down, processes, signals >>
    /\ UNCHANGED << recorders, chat_to_video, config, mover >>

\* the first loop is through
StartLoopEnds ==
    /\ helper.pc = "start"
    /\ helper.todo = << >>
    /\ helper' = [helper EXCEPT !.pc = "stop",
                                !.gone = helper.current_channels \ Range(helper.active_channels)]
    /\ UNCHANGED << running_processes, mover_proc, shutting_down, processes, signals >>
    /\ UNCHANGED << recorders, chat_to_video, config, mover >>

\* lines 167-168: the recorders of a channel that left the configuration
\* are stopped
StopRemoved ==
    /\ helper.pc = "stop"
    /\ \E name \in helper.gone :
          /\ stop_recorder(name)
          /\ helper' = [helper EXCEPT !.gone = @ \ {name}]
    /\ UNCHANGED << mover_proc, shutting_down, signals >>
    /\ UNCHANGED << recorders, chat_to_video, config, mover >>

\* the second loop is through
StopLoopEnds ==
    /\ helper.pc = "stop"
    /\ helper.gone = {}
    /\ helper' = [helper EXCEPT !.pc = "check", !.todo = helper.active_channels]
    /\ UNCHANGED << running_processes, mover_proc, shutting_down, processes, signals >>
    /\ UNCHANGED << recorders, chat_to_video, config, mover >>

\* line 175: the recorder of this kind has exited
Dead(name, kind) ==
    /\ ProcOf(name, kind) # NoProc
    /\ ~Polls(processes, ProcOf(name, kind))

\* lines 171-175, 182: both recorders of an active channel are running
RecordersAlive ==
    /\ helper.pc = "check"
    /\ helper.todo # << >>
    /\ ~Dead(Head(helper.todo), "video")
    /\ ~Dead(Head(helper.todo), "chat")
    /\ helper' = [helper EXCEPT !.todo = Tail(@)]
    /\ UNCHANGED << running_processes, mover_proc, shutting_down, processes, signals >>
    /\ UNCHANGED << recorders, chat_to_video, config, mover >>

\* lines 175-176: a recorder has exited; the message of line 176 calls
\* kind.UPPER(), which a str does not have: AttributeError, not caught, and
\* main ends with the traceback
DeadRecorderFound ==
    /\ helper.pc = "check"
    /\ helper.todo # << >>
    /\ Dead(Head(helper.todo), "video") \/ Dead(Head(helper.todo), "chat")
    /\ helper' = [helper EXCEPT !.pc = "crash"]
    /\ UNCHANGED << running_processes, mover_proc, shutting_down, processes, signals >>
    /\ UNCHANGED << recorders, chat_to_video, config, mover >>

\* the third loop is through: the iteration is complete
CheckLoopEnds ==
    /\ helper.pc = "check"
    /\ helper.todo = << >>
    /\ helper' = [helper EXCEPT !.pc = "sleep"]
    /\ UNCHANGED << running_processes, mover_proc, shutting_down, processes, signals >>
    /\ UNCHANGED << recorders, chat_to_video, config, mover >>

\* line 184: CHECK_INTERVAL later
NextIteration ==
    /\ helper.pc = "sleep"
    /\ helper' = [helper EXCEPT !.pc = "load"]
    /\ UNCHANGED << running_processes, mover_proc, shutting_down, processes, signals >>
    /\ UNCHANGED << recorders, chat_to_video, config, mover >>

\* a process the orchestrator started ends by itself
ProcessExits ==
    /\ helper.pc \notin {"exit", "crash"}
    /\ \E pid \in DOMAIN processes :
          /\ Polls(processes, pid)
          /\ processes' = [processes EXCEPT ![pid].state = "exited"]
    /\ UNCHANGED << running_processes, mover_proc, shutting_down, helper, signals >>
    /\ UNCHANGED << recorders, chat_to_video, config, mover >>

\* channellist.yaml is rewritten while the orchestrator runs; the file is
\* read at line 156 only, so that the edits of an iteration are those made
\* before its read
ConfigEdited ==
    /\ helper.pc = "sleep"
    /\ EditConfig
    /\ UNCHANGED << recorders, chat_to_video, orchestrator, mover >>

\* SIGINT or SIGTERM arrives (handlers of lines 147-148): cleanup starts,
\* lines 127-136
Signal ==
    /\ helper.pc \notin {"exit", "crash"}
    /\ Len(signals) < MaxSignals
    /\ ~shutting_down
    /\ signals' = Append(signals, helper.pc)
    /\ shutting_down' = TRUE
    /\ helper' = [helper EXCEPT !.pc = "cleanup", !.left = DOMAIN running_processes,
                                !.cleanups = @ + 1]
    /\ UNCHANGED << running_processes, mover_proc, processes >>
    /\ UNCHANGED << recorders, chat_to_video, config, mover >>

\* lines 129-131: a signal during the shutdown returns at once
SignalWhileShuttingDown ==
    /\ helper.pc \notin {"exit", "crash"}
    /\ Len(signals) < MaxSignals
    /\ shutting_down
    /\ signals' = Append(signals, helper.pc)
    /\ UNCHANGED << running_processes, mover_proc, shutting_down, processes, helper >>
    /\ UNCHANGED << recorders, chat_to_video, config, mover >>

\* lines 136-137: cleanup stops the recorders of one channel
CleanupStopsRecorder ==
    /\ helper.pc = "cleanup"
    /\ \E name \in helper.left :
          /\ stop_recorder(name)
          /\ helper' = [helper EXCEPT !.left = @ \ {name}]
    /\ UNCHANGED << mover_proc, shutting_down, signals >>
    /\ UNCHANGED << recorders, chat_to_video, config, mover >>

\* lines 140-143, 119-124: cleanup stops the mover and exits
CleanupStopsMover ==
    /\ helper.pc = "cleanup"
    /\ helper.left = {}
    /\ processes' = stop_proc(processes, mover_proc)
    /\ mover_proc' = NoProc
    /\ helper' = [helper EXCEPT !.pc = "exit"]
    /\ UNCHANGED << running_processes, shutting_down, signals >>
    /\ UNCHANGED << recorders, chat_to_video, config, mover >>

NextHelper ==
    \/ StartMover
    \/ StoreMover
    \/ LoadChannels
    \/ PassRunning
    \/ StartVideoRecorder
    \/ StartChatRecorder
    \/ RecordRecorders
    \/ StartLoopEnds
    \/ StopRemoved
    \/ StopLoopEnds
    \/ RecordersAlive
    \/ DeadRecorderFound
    \/ CheckLoopEnds
    \/ NextIteration
    \/ ProcessExits
    \/ ConfigEdited
    \/ Signal
    \/ SignalWhileShuttingDown
    \/ CleanupStopsRecorder
    \/ CleanupStopsMover

-----------------------------------------------------------------------------
(* The mover, src/tools/move_to_location.py, and the recorders that write  *)
(* into the temp directories it scans.                                     *)

\* a path below ./temp: the channel's directory and the file name, the name
\* as its parts between the dots
File(dir, name) == [dir |-> dir, name |-> name]

\* the chat download of channel a while yt-dlp writes it
ChatPart == File("a", << "c", "live_chat", "json", "part" >>)

\* the finished chat download of channel a
ChatJson == File("a", << "c", "live_chat", "json" >>)

\* the log of the chat recorder of channel a (live_chat_recorder.py line 115)
ChatLog == File("a", << "a_chat", "log" >>)

\* the files of the model, all of channel a
Paths == { ChatPart, ChatJson, ChatLog }

\* the files the recorders append to
Appended == { ChatPart, ChatLog }

\* the logs, appended to as long as their recorder runs
Logs == { ChatLog }

\* largest file size
MaxSize == 2

\* no file at the path; a file of the model holds at least one byte
NoFile == 0

\* SKIP_EXTENSIONS, line 17
SKIP_EXTENSIONS == { "part", "ytdl" }

\* os.path.splitext(base_name)[1], line 102, without its dot
Ext(name) == IF Len(name) > 1 THEN name[Len(name)] ELSE ""

\* is_chat_json, lines 52-61
is_chat_json(name) == Ext(name) = "json"

\* the empty seen_sizes of line 161
NoSizes == [p \in {} |-> NoFile]

\* is somebody still going to write the file
Written(p) == p = ChatPart \/ p \in temp.writers

\* os.scandir(temp_dir) with entry.is_file(), lines 94-96: the regular files
\* of the channel's temp directory
Entries(size, name) == { p \in Paths : p.dir = name /\ size[p] # NoFile }

\* the path of line 127: the file's name in the channel's target directory
Dest(target, p) == File(target, p.name)

\* no call made
NoCalls == [p \in Paths |-> << >>]

\* scan_once at line 77
Begin ==
    [seen_sizes |-> seen_sizes, size |-> temp.size, current_paths |-> {},
     read |-> {}, moved |-> {}, failed |-> {}, calls |-> NoCalls]

\* a look that records the size again where the script moves the file
LookRecordsOnly(st, p, nostat, nomove) ==
    IF Ext(p.name) \in SKIP_EXTENSIONS THEN "skip"
    ELSE IF p \in nostat THEN "nostat"
    ELSE IF p \notin DOMAIN st.seen_sizes THEN "track"
    ELSE "update"

\* lines 98-137 for one entry of the directory: what happens to the file.
\* nostat are the paths whose getsize raises, nomove the paths whose move
\* raises.
Look(st, p, nostat, nomove) ==
    IF Ext(p.name) \in SKIP_EXTENSIONS THEN "skip"
    ELSE IF p \in nostat THEN "nostat"
    ELSE IF p \notin DOMAIN st.seen_sizes THEN "track"
    ELSE IF st.size[p] # st.seen_sizes[p] THEN "update"
    ELSE IF p \in nomove THEN "failed"
    ELSE "moved"

\* a call of shutil.move or of render_chat_json with its argument, and
\* whether it went well
Call(name, arg, ok) == [call |-> name, arg |-> arg, ok |-> ok]

\* the calls that hand the file of a failed move to the renderer as well
CallsRenderAlways(outcome, p, target, norender) ==
    IF outcome \in {"moved", "failed"}
    THEN << Call("move", Dest(target, p), outcome = "moved"),
            Call("render_chat_json", Dest(target, p), p \notin norender) >>
    ELSE << >>

\* lines 130-145 for one entry: the move, and after a move that went well
\* the renderer for a chat file with the path the file was moved to.  A
\* failed move continues with the next entry (line 137).  norender are the
\* paths whose rendering fails: render_chat_json returns False (lines 22-28
\* and 43-48, the value is not looked at) or raises (caught at line 144).
Calls(outcome, p, target, norender) ==
    IF outcome = "moved"
    THEN << Call("move", Dest(target, p), TRUE) >>
         \o (IF is_chat_json(p.name)
             THEN << Call("render_chat_json", Dest(target, p), p \notin norender) >>
             ELSE << >>)
    ELSE IF outcome = "failed"
    THEN << Call("move", Dest(target, p), FALSE) >>
    ELSE << >>

\* the loop of line 94 over the entries of one directory; the entries are
\* different paths, and what happens to one does not depend on the others
ScanDir(st, entries, target, nostat, nomove, norender) ==
    LET Did(what) == { p \in entries : Look(st, p, nostat, nomove) \in what }
        After(recorded, gone, failed, unread) ==
            [seen_sizes |-> [p \in (DOMAIN st.seen_sizes \cup recorded) \ gone |->
                                IF p \in recorded THEN st.size[p]
                                ELSE st.seen_sizes[p]],
             size |-> [p \in Paths |-> IF p \in gone THEN NoFile ELSE st.size[p]],
             current_paths |-> st.current_paths \cup entries,
             read |-> st.read \cup (entries \ unread),
             moved |-> st.moved \cup gone,
             failed |-> st.failed \cup failed,
             calls |-> [p \in Paths |->
                          IF p \in gone THEN st.calls[p] \o Calls("moved", p, target, norender)
                          ELSE IF p \in failed
                          THEN st.calls[p] \o Calls("failed", p, target, norender)
                          ELSE st.calls[p]]]
    IN  CHOOSE after \in { After(recorded, gone, failed, unread) :
                              recorded \in { Did({"track", "update"}) },
                              gone \in { Did({"moved"}) },
                              failed \in { Did({"failed"}) },
                              unread \in { Did({"skip", "nostat"}) } } : TRUE

\* the loop of line 79 over the channels of the configuration, a channel
\* after the other
RECURSIVE ScanChannels(_, _, _, _, _)
ScanChannels(st, channels, nostat, nomove, norender) ==
    IF channels = << >> THEN st
    ELSE LET cfg == Head(channels)
             rest == { ScanChannels(here, Tail(channels), nostat, nomove, norender) :
                         here \in { IF cfg.name = "" \/ cfg.target = "" THEN st
                                    ELSE ScanDir(st, Entries(st.size, cfg.name),
                                                 cfg.target, nostat, nomove,
                                                 norender) } }
         IN  CHOOSE after \in rest : TRUE

\* lines 148-151: the entries of paths not seen in this scan are removed
DropStale(st) ==
    [p \in DOMAIN st.seen_sizes \cap st.current_paths |-> st.seen_sizes[p]]

\* the mover before its first scan
NoScan ==
    [completed |-> FALSE, read |-> {}, moved |-> {}, unfinished |-> {},
     failed |-> {}, calls |-> NoCalls]

\* one pass of the loop of main_loop (lines 163-168): scan_once, for the
\* configuration as it is read at line 76.  reached is the number of channels
\* gone through: all of them, or fewer when an exception ends the scan there
\* (caught at line 166), in which case lines 148-151 are not run.  The
\* history keeps the paths whose size the scan read, the paths it moved,
\* those of them that were still being written, the paths whose move
\* failed, and for each path the calls of shutil.move and render_chat_json
\* made for it, in their order.
scan_once(reached, nostat, nomove, norender) ==
    \E begin \in { Begin } :
    \E st \in { ScanChannels(begin, SubSeq(channellist, 1, reached), nostat, nomove, norender) } :
        /\ seen_sizes' = IF reached = Len(channellist) THEN DropStale(st)
                         ELSE st.seen_sizes
        /\ temp' = [temp EXCEPT !.size = st.size]
        /\ scan' = [completed |-> reached = Len(channellist),
                    read |-> st.read, moved |-> st.moved,
                    unfinished |-> { p \in st.moved : Written(p) },
                    failed |-> st.failed, calls |-> st.calls]

\* a scan in which nothing fails
ScanOnce ==
    /\ scan_once(Len(channellist), {}, {}, {})
    /\ UNCHANGED << recorders, chat_to_video, config, orchestrator >>

\* lines 164-167: an exception ends the scan at one of the channels
ScanRaises ==
    /\ \E reached \in 0..(Len(channellist) - 1) : scan_once(reached, {}, {}, {})
    /\ UNCHANGED << recorders, chat_to_video, config, orchestrator >>

\* lines 106-110: a scan in which getsize raises for one file
ScanStatFails ==
    /\ \E p \in Paths \ {ChatPart} :
          /\ temp.size[p] # NoFile
          /\ scan_once(Len(channellist), {p}, {}, {})
    /\ UNCHANGED << recorders, chat_to_video, config, orchestrator >>

\* lines 130-137: a scan in which the move raises for one file
ScanMoveFails ==
    /\ \E p \in Paths \ {ChatPart} :
          /\ temp.size[p] # NoFile
          /\ scan_once(Len(channellist), {}, {p}, {})
    /\ UNCHANGED << recorders, chat_to_video, config, orchestrator >>

\* lines 140-145: a scan in which the rendering of one chat file fails
ScanRenderFails ==
    /\ \E p \in { q \in Paths : is_chat_json(q.name) } :
          /\ temp.size[p] # NoFile
          /\ scan_once(Len(channellist), {}, {}, {p})
    /\ UNCHANGED << recorders, chat_to_video, config, orchestrator >>

\* a recorder appends to one of its files, creating it when it is not there
RecorderWrites ==
    /\ \E p \in Appended :
          /\ Written(p)
          /\ temp.size[p] < MaxSize
          /\ temp' = [temp EXCEPT !.size[p] = @ + 1]
    /\ UNCHANGED << seen_sizes, scan >>
    /\ UNCHANGED << recorders, chat_to_video, config, orchestrator >>

\* yt-dlp ends the download and renames the .part file to its final name
DownloadEnds ==
    /\ temp.size[ChatPart] # NoFile
    /\ temp' = [temp EXCEPT !.size[ChatJson] = temp.size[ChatPart],
                            !.size[ChatPart] = NoFile]
    /\ UNCHANGED << seen_sizes, scan >>
    /\ UNCHANGED << recorders, chat_to_video, config, orchestrator >>

\* a recorder ends: its log is not written any more
RecorderEnds ==
    /\ \E p \in temp.writers : temp' = [temp EXCEPT !.writers = @ \ {p}]
    /\ UNCHANGED << seen_sizes, scan >>
    /\ UNCHANGED << recorders, chat_to_video, config, orchestrator >>

\* channellist.yaml is rewritten while the mover runs
ChannelsEdited ==
    /\ EditConfig
    /\ UNCHANGED << recorders, chat_to_video, orchestrator, mover >>

NextMover ==
    \/ ScanOnce
    \/ ScanRaises
    \/ ScanStatFails
    \/ ScanMoveFails
    \/ ScanRenderFails
    \/ RecorderWrites
    \/ DownloadEnds
    \/ RecorderEnds
    \/ ChannelsEdited

\* the mover while nobody edits channellist.yaml
NextMoverSettled ==
    \/ ScanOnce
    \/ ScanRaises
    \/ ScanStatFails
    \/ ScanMoveFails
    \/ ScanRenderFails
    \/ RecorderWrites
    \/ DownloadEnds
    \/ RecorderEnds

-----------------------------------------------------------------------------
(* The recorders, src/recorder/live_stream_recorder.py and                 *)
(* src/recorder/live_chat_recorder.py: one process a channel each, polling *)
(* whether the channel is live and running yt-dlp as a capture subprocess. *)

\* the captures a recorder starts in the model
MaxCaptures == 2

\* the recorder at the top of main: recording_proc, fast_polling and stream
\* are the locals of main, running the flag of line 23 of the chat recorder
RecorderStart(kind) ==
    [kind |-> kind, pc |-> "loop", recording_proc |-> NoProc,
     fast_polling |-> FALSE, stream |-> FALSE, running |-> TRUE,
     signalled |-> 0]

\* the recorder's own steps go on until it leaves main
InMain == recorder.pc \notin {"off", "exit"}

\* the chat recorder's flag is down (while running, line 167, and line 172);
\* the stream recorder loops on while True
Stopped == recorder.kind = "chat" /\ ~recorder.running

\* the test of the while, line 167 (chat) and line 138 (stream)
LoopTest ==
    /\ recorder.pc = "loop"
    /\ recorder' = [recorder EXCEPT !.pc = IF Stopped THEN "exit" ELSE "poll"]
    /\ UNCHANGED captures
    /\ UNCHANGED << chat_to_video, supervision >>

\* a poll that reports every capture as ended
ExitedOrNot(proc) == TRUE

\* recording_proc.poll() is not None
Exited(proc) == captures[proc] = "exited"

\* lines 168-170 (chat) and 139-141 (stream): a capture seen to have ended
\* is not tracked any more
PollCapture ==
    /\ recorder.pc = "poll"
    /\ recorder' =
          [recorder EXCEPT
              !.recording_proc =
                  IF @ # NoProc /\ Exited(@) THEN NoProc ELSE @,
              !.pc = IF recorder.kind = "chat" THEN "break" ELSE "live"]
    /\ UNCHANGED captures
    /\ UNCHANGED << chat_to_video, supervision >>

\* lines 172-173 of the chat recorder: if not running: break
BreakTest ==
    /\ recorder.pc = "break"
    /\ recorder' = [recorder EXCEPT !.pc = IF Stopped THEN "exit" ELSE "live"]
    /\ UNCHANGED captures
    /\ UNCHANGED << chat_to_video, supervision >>

\* lines 175-176 (chat) and 143-144 (stream): without a capture the recorder
\* asks whether the channel is live; the call takes its time
LiveCheck ==
    /\ recorder.pc = "live"
    /\ recorder' = [recorder EXCEPT !.pc = IF recorder.recording_proc = NoProc
                                           THEN "is_currently_live"
                                           ELSE "upcoming"]
    /\ UNCHANGED captures
    /\ UNCHANGED << chat_to_video, supervision >>

\* is_currently_live returns: the stream's URL and title, or None
LiveCheckReturns ==
    /\ recorder.pc = "is_currently_live"
    /\ \E live \in BOOLEAN :
          /\ live => Len(captures) < MaxCaptures
          /\ recorder' = [recorder EXCEPT !.stream = live,
                                          !.pc = IF live THEN "start" ELSE "upcoming"]
    /\ UNCHANGED captures
    /\ UNCHANGED << chat_to_video, supervision >>

\* lines 177-180 (chat) and 145-148 (stream): start_chat_recording or
\* start_recording runs yt-dlp, and the loop starts over
StartCapture ==
    /\ recorder.pc = "start"
    /\ captures' = Append(captures, "running")
    /\ recorder' = [recorder EXCEPT !.recording_proc = Len(captures) + 1,
                                    !.fast_polling = FALSE,
                                    !.pc = "loop"]
    /\ UNCHANGED << chat_to_video, supervision >>

\* lines 182-191 (chat) and 150-159 (stream): fast polling ends after
\* FAST_POLL_DURATION, and outside fast polling an upcoming stream starts it
Upcoming ==
    /\ recorder.pc = "upcoming"
    /\ \E timed_out, upcoming \in BOOLEAN :
          recorder' =
              [recorder EXCEPT
                  !.fast_polling = IF @ /\ ~timed_out THEN TRUE ELSE upcoming,
                  !.pc = "sleep"]
    /\ UNCHANGED captures
    /\ UNCHANGED << chat_to_video, supervision >>

\* time.sleep, line 193 (chat) and 161 (stream); a handler that returns does
\* not end it
Sleep ==
    /\ recorder.pc = "sleep"
    /\ recorder' = [recorder EXCEPT !.pc = "loop"]
    /\ UNCHANGED captures
    /\ UNCHANGED << chat_to_video, supervision >>

\* yt-dlp ends: the stream is over, or the download failed
CaptureEnds ==
    /\ InMain
    /\ \E c \in DOMAIN captures :
          /\ captures[c] = "running"
          /\ captures' = [captures EXCEPT ![c] = "exited"]
    /\ UNCHANGED recorder
    /\ UNCHANGED << chat_to_video, supervision >>

\* SIGINT or SIGTERM: the chat recorder's cleanup (lines 198-201) puts the
\* flag down and returns, the stream recorder's (lines 163-165) raises
\* SystemExit where main is
RecorderSignalled ==
    /\ InMain
    /\ recorder.signalled < MaxSignals
    /\ recorder' =
          IF recorder.kind = "chat"
          THEN [recorder EXCEPT !.running = FALSE, !.signalled = @ + 1]
          ELSE [recorder EXCEPT !.pc = "exit", !.signalled = @ + 1]
    /\ UNCHANGED captures
    /\ UNCHANGED << chat_to_video, supervision >>

NextRecorder ==
    \/ LoopTest
    \/ PollCapture
    \/ BreakTest
    \/ LiveCheck
    \/ LiveCheckReturns
    \/ StartCapture
    \/ Upcoming
    \/ Sleep
    \/ CaptureEnds
    \/ RecorderSignalled

-----------------------------------------------------------------------------
(* The programs that a specification leaves out. *)

\* no renderer runs
RendererOff ==
    /\ args = [start |-> 0]
    /\ raw = << >>
    /\ actions = << >>
    /\ pc = "off"
    /\ first_ts_usec = None
    /\ messages = << >>
    /\ end_time_seconds = 0
    /\ duration_seconds = 0
    /\ fallback = FALSE
    /\ pre = [messages |-> << >>, end |-> 0, duration |-> 0]
    /\ encoder = "none"
    /\ num_frames = 0
    /\ frame = 0
    /\ current_message_index = -1
    /\ redraw = TRUE
    /\ img = << >>
    /\ draws = {}
    /\ written = << >>
    /\ step = << >>
    /\ exit_msg = ""
    /\ cache = << >>
    /\ fetched = << >>
    /\ fetch_fails = {}
    /\ disk = {}

\* no orchestrator runs
HelperOff ==
    /\ running_processes = << >>
    /\ mover_proc = NoProc
    /\ shutting_down = FALSE
    /\ processes = << >>
    /\ helper = [pc |-> "off"]
    /\ signals = << >>

\* no mover runs
MoverOff ==
    /\ seen_sizes = NoSizes
    /\ temp = [size |-> [p \in Paths |-> NoFile], writers |-> {}]
    /\ scan = NoScan

\* no recorder runs
RecorderOff ==
    /\ recorder = [pc |-> "off"]
    /\ captures = << >>

\* nobody reads channellist.yaml
ConfigOff ==
    /\ channellist = << >>
    /\ edits = 0

-----------------------------------------------------------------------------

(* Inputs. *)

\* the state once the command line is parsed, for the chat file f; the
\* transcripts of the inputs below are files of one action a line, as yt-dlp
\* writes them
Start(f, a) ==
    /\ args = a
    /\ raw = f
    /\ actions = << >>
    /\ pc = "load"
    /\ first_ts_usec = None
    /\ messages = << >>
    /\ end_time_seconds = a.end
    /\ duration_seconds = 0
    /\ fallback = FALSE
    /\ pre = [messages |-> << >>, end |-> 0, duration |-> 0]
    /\ encoder = "none"
    /\ num_frames = 0
    /\ frame = 0
    /\ current_message_index = -1
    /\ redraw = TRUE
    /\ img = NewImage
    /\ draws = {}
    /\ written = << >>
    /\ step = NoStep
    /\ exit_msg = ""
    /\ cache = EmptyCache
    /\ fetched = << >>
    /\ ConfigOff
    /\ HelperOff
    /\ MoverOff
    /\ RecorderOff

\* the world of the assets: the URLs whose fetch fails and the cache folder
Network(fails, folder) ==
    /\ fetch_fails = fails
    /\ disk = folder

\* the defaults of the command line (lines 126-141), times in ms
DefaultArgs ==
    [start |-> 0, end |-> 0, frame_rate |-> 10, fallback_gap_ms |-> 1200,
     transparent |-> FALSE, no_clip |-> TRUE, width |-> 400, height |-> 540,
     chat_scale |-> 1, padding |-> 24, skip_avatars |-> FALSE,
     skip_emojis |-> FALSE, use_cache |-> FALSE]

\* replay transcripts with offsets of whole seconds
TimedActions == { ReplayAt(t, ShortRuns) : t \in {0, 1000, 2000} }

TimedArgs ==
    { [DefaultArgs EXCEPT !.start = s, !.end = e, !.frame_rate = r,
                          !.fallback_gap_ms = g, !.transparent = tr]
        : s \in {0, 1000}, e \in {0, 1000, 3000}, r \in {1, 2},
          g \in {0, 1200, 2500}, tr \in BOOLEAN }

\* the scenario of three messages at 0 ms, 1000 ms and 5000 ms, in any order
ScenarioTimes == {0, 1000, 5000}

ScenarioTranscripts ==
    { s \in [1..3 -> { ReplayAt(t, ShortRuns) : t \in ScenarioTimes }] :
        { s[k].offset : k \in 1..3 } = ScenarioTimes }

ScenarioArgs ==
    { [DefaultArgs EXCEPT !.transparent = tr] : tr \in BOOLEAN }

Init ==
    \/ \E acts \in SeqsUpTo(TimedActions, MaxActions), a \in TimedArgs :
           Start(AsLines(acts), a) /\ Network({}, {})
    \/ \E acts \in ScenarioTranscripts, a \in ScenarioArgs :
           Start(AsLines(acts), a) /\ Network({}, {})

Spec == Init /\ [][Next]_vars

\* transcripts whose last message is not at a whole second, rendered without
\* an end from a start of 0 s or 0.5 s at 1, 2 and 3 frames a second: the
\* products fps * duration that round() rounds down, up, and at a tie
HalfSecondActions == { ReplayAt(t, ShortRuns) : t \in {0, 500, 1500, 2500} }

HalfSecondArgs ==
    { [DefaultArgs EXCEPT !.start = s, !.frame_rate = r]
        : s \in {0, 500}, r \in {1, 2, 3} }

InitRounding ==
    \E acts \in SeqsUpTo(HalfSecondActions, MaxActions), a \in HalfSecondArgs :
        Start(AsLines(acts), a) /\ Network({}, {})

SpecRounding == InitRounding /\ [][Next]_vars

\* transcripts for the layout: one message a second, short or long texts,
\* rendered to an end behind the last message so that every message is shown
RECURSIVE EverySecond(_, _)
EverySecond(runs, k) ==
    IF k > Len(runs) THEN << >>
    ELSE << ReplayAt((k - 1) * 1000, runs[k]) >> \o EverySecond(runs, k + 1)

LayoutTranscripts ==
    { EverySecond(runs, 1) :
        runs \in SeqsUpTo({ShortRuns, LongRuns, MixedRuns}, MaxActions) }

LayoutArgs ==
    { [DefaultArgs EXCEPT !.frame_rate = 1, !.end = e, !.no_clip = nc,
                          !.width = w, !.height = h, !.chat_scale = sc]
        : e \in {0, 4000}, nc \in BOOLEAN, w \in {100, 400},
          h \in {32, 64, 100}, sc \in {1, 2} }

InitLayout ==
    \E acts \in LayoutTranscripts, a \in LayoutArgs :
        Start(AsLines(acts), a) /\ Network({HeartUrl}, {})

SpecLayout == InitLayout /\ [][Next]_vars

\* transcripts for the extraction: every kind of raw action
ExtractActions ==
    { ReplayAt(0, ShortRuns),
      ReplayAt(2000, ShortRuns),
      ReplayAt(-500, ShortRuns),
      Replay(TRUE, 1000, << Sub(TRUE, TRUE, 0, 30, ShortRuns),
                            Sub(TRUE, TRUE, 0, 31, ShortRuns) >>),
      Replay(FALSE, 0, << Sub(TRUE, TRUE, 6000000, 30, ShortRuns) >>),
      Replay(TRUE, 1000, << Sub(FALSE, FALSE, 0, 30, ShortRuns) >>),
      LiveAt(5000000, ShortRuns),
      LiveAt(6000999, ShortRuns),
      Live(Sub(TRUE, FALSE, 0, 30, ShortRuns)),
      Live(Sub(FALSE, FALSE, 0, 30, ShortRuns)),
      Other }

ExtractArgs ==
    { [DefaultArgs EXCEPT !.frame_rate = 1, !.end = e] : e \in {0, 1000} }

InitExtract ==
    \E acts \in SeqsUpTo(ExtractActions, MaxActions), a \in ExtractArgs :
        Start(AsLines(acts), a) /\ Network({}, {})

SpecExtract == InitExtract /\ [][Next]_vars

\* transcripts with renderers that have a field of the wrong shape
MalformedActions ==
    { ReplayAt(0, ShortRuns),
      ReplayAt(1000, ShortRuns),
      LiveAt(5000000, ShortRuns),
      Live(Malformed(Sub(TRUE, TRUE, 0, 30, ShortRuns), "ts")),
      Replay(TRUE, 500, << Malformed(Sub(TRUE, FALSE, 0, 30, ShortRuns), "author") >>),
      Replay(TRUE, 2000, << Malformed(Sub(TRUE, FALSE, 0, 30, ShortRuns), "author") >>),
      Replay(TRUE, 500, << Malformed(Sub(TRUE, FALSE, 0, 30, LongRuns), "runs") >>) }

InitMalformed ==
    \E acts \in SeqsUpTo(MalformedActions, MaxActions), a \in ExtractArgs :
        Start(AsLines(acts), a) /\ Network({}, {})

SpecMalformed == InitMalformed /\ [][Next]_vars

\* chat files of the three containers, and files of lines with blank lines
\* and lines that do not parse
LoadActions ==
    { ReplayAt(0, ShortRuns), ReplayAt(2000, ShortRuns),
      ReplayAt(1000, << WordWithSeparator(40) >>),
      LiveAt(5000000, ShortRuns), Other }

LoadLines == { JsonLine(a) : a \in LoadActions } \cup { GarbageLine, BlankLine }

LoadFiles ==
    UNION { { AsObject(s), AsList(s) } :
              s \in { << >> } \cup SeqsUpTo(LoadActions, MaxActions) }
    \cup { [container |-> "lines", items |-> l] :
              l \in { << >> } \cup SeqsUpTo(LoadLines, MaxActions) }

InitLoad == \E f \in LoadFiles, a \in ExtractArgs : Start(f, a) /\ Network({}, {})

SpecLoad == InitLoad /\ [][Next]_vars

\* transcripts with author photos and emoji.  PicUrl and PicJpgUrl are two
\* URLs that differ in their extension only; the cache folder is empty or
\* holds the smile image
PicUrl == Url("pic", "png")

PicJpgUrl == Url("pic", "jpg")

AssetSubs ==
    { WithAvatar(Sub(TRUE, TRUE, 0, 30, << Word(40), Emoji(16, SmileUrl) >>), PicUrl),
      Sub(TRUE, TRUE, 0, 30, << Emoji(16, PicJpgUrl), Word(40) >>),
      WithAvatar(Sub(TRUE, TRUE, 0, 30, ShortRuns), PicUrl) }

RECURSIVE EverySecondSubs(_, _)
EverySecondSubs(subs, k) ==
    IF k > Len(subs) THEN << >>
    ELSE << Replay(TRUE, (k - 1) * 1000, << subs[k] >>) >>
         \o EverySecondSubs(subs, k + 1)

AssetTranscripts ==
    { EverySecondSubs(subs, 1) : subs \in SeqsUpTo(AssetSubs, MaxActions) }

AssetArgs ==
    { [DefaultArgs EXCEPT !.frame_rate = 1, !.end = 4000, !.skip_avatars = sa,
                          !.skip_emojis = se, !.use_cache = uc]
        : sa \in BOOLEAN, se \in BOOLEAN, uc \in BOOLEAN }

InitAssets ==
    \E acts \in AssetTranscripts, a \in AssetArgs,
       fails \in SUBSET {PicUrl, PicJpgUrl, SmileUrl}, folder \in {{}, {"smile"}} :
        Start(AsLines(acts), a) /\ Network(fails, folder)

SpecAssets == InitAssets /\ [][Next]_vars

\* the orchestrator at line 153, for every content of channellist.yaml
InitHelper ==
    /\ channellist \in Configs
    /\ edits = 0
    /\ running_processes = << >>
    /\ mover_proc = NoProc
    /\ shutting_down = FALSE
    /\ processes = << >>
    /\ helper = HelperStart
    /\ signals = << >>
    /\ RendererOff
    /\ MoverOff
    /\ RecorderOff

SpecHelper == InitHelper /\ [][NextHelper]_vars

\* the mover at line 163, the temp directories empty and the recorders of
\* both channels running
InitMover ==
    /\ channellist \in Configs
    /\ edits = 0
    /\ seen_sizes = NoSizes
    /\ temp = [size |-> [p \in Paths |-> NoFile], writers |-> Logs]
    /\ scan = NoScan
    /\ RendererOff
    /\ HelperOff
    /\ RecorderOff

SpecMover == InitMover /\ [][NextMover]_vars

\* a recorder of either kind from the top of its main
InitRecorder ==
    /\ \E kind \in {"stream", "chat"} : recorder = RecorderStart(kind)
    /\ captures = << >>
    /\ RendererOff
    /\ ConfigOff
    /\ HelperOff
    /\ MoverOff

SpecRecorder == InitRecorder /\ [][NextRecorder]_vars

\* the mover under a configuration that stays as it is: the loop of
\* main_loop (lines 163-168) goes on for ever, a scan every POLL_INTERVAL,
\* and a scan in which nothing fails comes again and again
SpecMoverFair == InitMover /\ [][NextMoverSettled]_vars /\ WF_vars(ScanOnce)

-----------------------------------------------------------------------------
(* Properties. *)

\* the positions of the script from the fallback test on
Timed == pc \in {"guard", "ffmpeg", "prefetch", "count", "frames", "close", "done"}

\* the positions of the script at which the layout engine and the frame
\* driver read the messages
Rendering == pc \in {"count", "frames", "close", "done"}

\* a frame iteration has been made
Stepped == step.i >= 0

Abs(x) == IF x < 0 THEN -x ELSE x

\* (0-based) index of the last message whose time is <= t, -1 when none is
LastAtOrBefore(t) ==
    Cardinality({ k \in DOMAIN messages : messages[k].time_ms <= t }) - 1

\* C1: after the cursor advance of frame i the cursor is the index of the
\* last message whose time_ms is <= t_ms = (start + i/fps) * 1000, or -1 when
\* there is none: a message whose time_ms equals t_ms is visible in frame i.
C1_CursorAtLastDue ==
    Stepped =>
        /\ step.t_ms * fps <= (args.start * fps) + (step.i * 1000)
        /\ (args.start * fps) + (step.i * 1000) < (step.t_ms + 1) * fps
        /\ step.after = LastAtOrBefore(step.t_ms)

\* n is x_num / den rounded to the nearest integer, a tie to the even one
IsRounded(n, x_num, den) ==
    /\ 2 * Abs(x_num - (den * n)) <= den
    /\ (2 * Abs(x_num - (den * n)) = den) => (n % 2 = 0)

\* C2: in a run that reaches the frame loop and in which no draw step fails,
\* exactly N = round(fps * duration) frames are written, in the order
\* 0..N-1, each of width * height * bytes_per_pixel bytes (3 opaque, 4
\* transparent); the writes made so far are always such a prefix.
C2_AllFramesWritten ==
    /\ \A k \in DOMAIN written :
          /\ written[k].i = k - 1
          /\ written[k].nbytes =
                args.width * args.height * (IF args.transparent THEN 4 ELSE 3)
    /\ (pc = "done" /\ ~step.failed) =>
          /\ IsRounded(Len(written), fps * duration_seconds, 1000)
          /\ Len(written) >= 1

C2_Witness ==
    /\ pc = "done"
    /\ ~step.failed
    /\ args.transparent
    /\ Len(written) = 5
    /\ (fps * duration_seconds) % 1000 > 500

\* the transcript and the options of the scenario
IsScenario ==
    /\ Len(actions) = 3
    /\ { actions[k].offset : k \in DOMAIN actions } = ScenarioTimes
    /\ \A k \in DOMAIN actions : actions[k].wrapper = "replay" /\ actions[k].hasOffset
    /\ args.start = 0
    /\ args.end = 0
    /\ args.frame_rate = 10

\* C3: messages at 0, 1000 and 5000 ms, start 0, no end, 10 fps: the
\* duration is 5.0 s, 50 frames 0..49 are emitted, the cursor is at the second
\* message at frame 10 and from then on, and the third message is in no frame.
C3_Scenario ==
    IsScenario =>
        /\ Timed => duration_seconds = 5000
        /\ pc \in {"frames", "close", "done"} => num_frames = 50
        /\ (pc = "done" /\ ~step.failed) => Len(written) = 50
        /\ (Stepped /\ step.i >= 10) => step.after >= 1
        /\ \A k \in DOMAIN written :
              \A b \in DOMAIN written[k].img.blocks :
                  written[k].img.blocks[b].index # 2

\* C4: when --no-clip is not given (args.no_clip keeps its default, True),
\* the layout leaves out the message whose block makes the accumulated height
\* exceed the canvas height: the heights of the blocks drawn sum to at most
\* the canvas height.
C4_DefaultLeavesOverflowOut ==
    (args.no_clip /\ img.cleared) => SumHeights(img.blocks) <= args.height

\* height accumulated by the k newest messages from cursor c on
RECURSIVE Accumulated(_, _)
Accumulated(c, k) ==
    IF k = 0 THEN 0
    ELSE Accumulated(c, k - 1) + MessageHeight(messages[c - k + 2])

LayoutRule(c, layout) ==
    /\ Len(layout) <= c + 1
    /\ \A k \in DOMAIN layout :
          /\ layout[k].index = c - (k - 1)
          /\ layout[k].message_height = MessageHeight(messages[c - k + 2])
    /\ \A k \in 1..(Len(layout) - 1) : Accumulated(c, k) <= args.height
    /\ Len(layout) < c + 1 =>
          \/ Accumulated(c, Len(layout)) > args.height
          \/ Accumulated(c, Len(layout) + 1) > args.height
    /\ Len(layout) >= 1 =>
          SumHeights(SubSeq(layout, 1, Len(layout) - 1)) <= args.height

\* C5: under either overflow policy and for every cursor c the block list is
\* the contiguous run of messages c, c-1, ..., k (newest first), the walk
\* stops at the first message whose accumulated height exceeds the canvas
\* height, and all blocks but the last appended one sum to at most the canvas
\* height; every buffer drawn holds the list of its cursor.
C5_LayoutWalk ==
    Rendering =>
        /\ \A c \in -1..(Len(messages) - 1) : LayoutRule(c, DrawChat(c))
        /\ (Stepped /\ step.drew /\ ~step.failed) =>
              LayoutRule(step.after, img.blocks)

C5_Witness ==
    /\ Stepped
    /\ step.drew
    /\ ~step.failed
    /\ Len(img.blocks) = 2
    /\ SumHeights(img.blocks) > args.height
    /\ step.after = 2

\* the cursor moved in the last frame iteration
Advanced == step.after # step.before

\* the last frame iteration wrote the buffer of the write before it
SameBuffer ==
    /\ step.wrote
    /\ Len(written) = step.i + 1
    /\ step.i >= 1 => written[step.i + 1].img = written[step.i].img

\* C6 as stated: layout and raster run for frame i if and only if the cursor
\* advanced in frame i; otherwise the buffer of the frame before is written.
C6_DrawnIffAdvanced ==
    Stepped =>
        /\ step.drew <=> Advanced
        /\ ~Advanced => SameBuffer

\* C6, amended: layout and raster run for frame i if and only if i = 0 or
\* the cursor advanced in frame i; a frame i > 0 without an advance runs
\* neither and writes the buffer written for frame i - 1.
C6_DrawnIffFirstOrAdvanced ==
    Stepped =>
        /\ step.drew <=> (step.i = 0 \/ Advanced)
        /\ (step.i \in draws) <=> step.drew
        /\ (step.i > 0 /\ ~Advanced) => SameBuffer

C6_Witness ==
    /\ Stepped
    /\ step.i > 1
    /\ ~Advanced
    /\ ~step.drew
    /\ step.wrote
    /\ 0 \in draws
    /\ step.before >= 0

\* the duration of the sorted timeline, from the options and the times
InputDuration ==
    (IF args.end = 0 THEN pre.messages[Len(pre.messages)].time_ms ELSE args.end)
        - args.start

InputDegenerate ==
    \/ InputDuration <= 0
    \/ Cardinality({ pre.messages[k].time_ms : k \in DOMAIN pre.messages }) = 1

\* C7 as stated: the fallback is applied if and only if duration <= 0 or all
\* messages have one time_ms, and then the i-th message has time_ms
\* = i * fallback_gap_ms, whatever fallback_gap_ms is configured.
C7_FallbackByConfiguredGap ==
    Timed =>
        /\ fallback <=> InputDegenerate
        /\ fallback =>
              \A k \in DOMAIN messages :
                  messages[k].time_ms = (k - 1) * args.fallback_gap_ms

\* C7, amended: the fallback is applied if and only if duration <= 0 or all
\* messages have one time_ms, and then the i-th message has time_ms
\* = i * max(1, fallback_gap_ms): consecutive messages differ by exactly
\* fallback_gap_ms when it is >= 1, and by 1 ms otherwise.
C7_FallbackByClampedGap ==
    Timed =>
        /\ fallback <=> InputDegenerate
        /\ fallback =>
              /\ Len(messages) = Len(pre.messages)
              /\ \A k \in DOMAIN messages :
                    messages[k].time_ms =
                        (k - 1) * (IF args.fallback_gap_ms >= 1
                                   THEN args.fallback_gap_ms ELSE 1)
        /\ ~fallback => messages = pre.messages

C7_Witness ==
    /\ pc = "guard"
    /\ fallback
    /\ args.fallback_gap_ms = 1200
    /\ InputDuration > 0
    /\ Len(messages) = 3
    /\ messages[3].time_ms = 2400

\* C8: whenever the fallback is applied and no end time was requested, the
\* end is the last synthetic time and the duration is end - start, whatever
\* the shared timestamp was.
C8_EndFromSyntheticSeries ==
    (Timed /\ fallback /\ args.end = 0) =>
        /\ end_time_seconds = messages[Len(messages)].time_ms
        /\ duration_seconds = Max(0, end_time_seconds - args.start)

\* C9: the messages the layout engine and the frame driver use are sorted
\* ascending by time_ms, messages of one time_ms in their transcript order,
\* without and after the timing fallback, and they are the extracted messages.
C9_SortedStable ==
    (Timed \/ pc = "fallback") =>
        /\ \A j, k \in DOMAIN messages :
              j < k =>
                  /\ messages[j].time_ms <= messages[k].time_ms
                  /\ pre.messages[j].time_ms <= pre.messages[k].time_ms
                  /\ pre.messages[j].time_ms = pre.messages[k].time_ms =>
                        messages[j].src < messages[k].src
        /\ \A k \in DOMAIN messages : messages[k].src = pre.messages[k].src
        /\ Len(messages) = Len(pre.messages)
        /\ Cardinality({ messages[k].src : k \in DOMAIN messages }) = Len(messages)

C9_Witness ==
    /\ Rendering
    /\ Len(messages) = 3
    /\ actions[1].offset > actions[2].offset
    /\ actions[1].offset = actions[3].offset
    /\ messages[2].src = 1
    /\ messages[3].src = 3

\* the timestamp of the first renderer of raw action k, None when it has none
ActionTs(k) ==
    LET with == { j \in DOMAIN actions[k].subs : actions[k].subs[j].renderer } IN
    IF with = {} THEN None
    ELSE LET j == CHOOSE j \in with : \A o \in with : j <= o IN
         IF actions[k].subs[j].hasTs THEN actions[k].subs[j].ts ELSE None

\* the smallest timestamp of the transcript (there is one)
MinTs ==
    CHOOSE t \in { ActionTs(k) : k \in DOMAIN actions } \ {None} :
        \A k \in DOMAIN actions : ActionTs(k) = None \/ t <= ActionTs(k)

\* C10: time_ms follows the three-way rule: the explicit replay offset when
\* the action carries one; otherwise (timestamp - minimum timestamp of the
\* transcript) in ms when the renderer carries a timestamp; otherwise no
\* message.  A replay wrapper without an offset field gets no offset-derived
\* time.
C10_ThreeWayRule ==
    pc = "sort" =>
        \A k \in DOMAIN messages :
            LET a == actions[messages[k].src] IN
            IF a.wrapper = "replay" /\ a.hasOffset
            THEN messages[k].time_ms = a.offset
            ELSE /\ ActionTs(messages[k].src) # None
                 /\ messages[k].time_ms = (ActionTs(messages[k].src) - MinTs) \div 1000

\* C11: every message that reaches the timeline builder has time_ms >= 0,
\* also the messages of replay actions whose offset is negative.
C11_TimesNonNegative ==
    pc = "sort" => \A k \in DOMAIN messages : messages[k].time_ms >= 0

\* the messages extracted from raw action k
MessagesOf(k) == { m \in DOMAIN messages : messages[m].src = k }

\* the sub-actions of raw action k that hold a renderer
RendererSubs(k) == { j \in DOMAIN actions[k].subs : actions[k].subs[j].renderer }

\* C12: a replay wrapper with an offset and k sub-actions that each hold a
\* renderer yields k messages, one per sub-action, all at the wrapper's offset.
C12_OneMessagePerSubAction ==
    pc = "sort" =>
        \A k \in DOMAIN actions :
            (/\ actions[k].wrapper = "replay"
             /\ actions[k].hasOffset
             /\ ~(args.end # 0 /\ actions[k].offset > args.end)) =>
                /\ Cardinality(MessagesOf(k)) = Cardinality(RendererSubs(k))
                /\ \A m \in MessagesOf(k) : messages[m].time_ms = actions[k].offset

\* raw action k is well formed and gives a message inside the time window
WellFormedInWindow(k) ==
    LET r == ExtractRendererAndTimes(actions[k]) IN
    /\ \A j \in DOMAIN actions[k].subs : actions[k].subs[j].bad = "none"
    /\ r.has_renderer
    /\ r.has_offset \/ r.ts_usec # None
    /\ r.has_offset => ~(args.end # 0 /\ r.offset_ms > args.end)
    /\ ~r.has_offset => ~(args.end # 0 /\ (r.ts_usec - MinTs) \div 1000 > args.end)

\* C13: a malformed field inside one action never aborts the batch: the
\* script gets past the extraction, and every well-formed action is still
\* extracted to a message.
C13_MalformedNeverAborts ==
    /\ pc # "crash"
    /\ pc = "sort" =>
          \A k \in DOMAIN actions : WellFormedInWindow(k) => MessagesOf(k) # {}

\* C14: if the drawing step raises an error at frame i, no frame with index
\* >= i is written (the writes are the frames 0..i-1), the loop is left, and
\* when the program ends the encoder's input is closed and the encoder has
\* been waited for.
C14_DrawErrorEndsTheWrites ==
    step.failed =>
        /\ Len(written) = step.i
        /\ \A k \in DOMAIN written : written[k].i < step.i
        /\ pc \in {"close", "done"}
        /\ pc = "close" => encoder = "running"
        /\ pc = "done" => encoder = "exited"

C14_Witness ==
    /\ step.failed
    /\ step.i = 2
    /\ Len(written) = 2
    /\ num_frames > 3
    /\ pc = "done"
    /\ encoder = "exited"

\* the renderer process has ended
Ended == pc \in {"done", "exit", "crash"}

\* the exit status of the renderer process: 0 when the script runs to its
\* last line; 1 for raise SystemExit(message) and for an uncaught exception
ExitStatus == IF pc = "done" THEN 0 ELSE 1

\* render_chat_json: subprocess.run(cmd, check=True) raises
\* CalledProcessError for a non-zero exit status, and then False is returned
RenderChatJson == ExitStatus = 0

\* the render was aborted: by a fatal error, or by an error of the drawing
\* step that ended the frame loop
Aborted == pc \in {"exit", "crash"} \/ step.failed

\* C15: every fatal condition, also an error raised while a frame is drawn,
\* makes the renderer process end with a non-zero exit status, so that
\* render_chat_json returns False for every aborted render.
C15_AbortedRenderReportsFailure ==
    (Ended /\ Aborted) => (ExitStatus # 0 /\ ~RenderChatJson)

\* the messages the transcript holds when no end time is given
Extractable == Normalize(actions, 1, FirstTs(actions, 1, None), 0)

\* C16: when no message remains the run ends fatally before any frame is
\* computed, with the window-empty message exactly when a message was
\* extractable and the end-time filter removed them all, and with the
\* file-empty message exactly when the transcript yields no message at all,
\* with or without an end time.
C16_EmptyCausesDistinguished ==
    (pc = "exit" /\ messages = << >>) =>
        /\ written = << >>
        /\ num_frames = 0
        /\ encoder = "none"
        /\ (exit_msg = "Error: No messages within selected time window")
              <=> (Extractable # << >>)
        /\ (exit_msg = "Error: No messages found in the chat file")
              <=> (Extractable = << >>)

IsJson(line) == line.kind = "json"

\* the action sequence that the chat file wraps
Content(f) == Objects(SelectSeq(f.items, IsJson))

\* the messages Normalizer + Extractor give for the chat file f
MessagesFrom(f) ==
    LET acts == LoadChatActions(f) IN
    Normalize(acts, 1, FirstTs(acts, 1, None), args.end)

\* the extraction has run
Extracted == pc = "sort" \/ (pc = "exit" /\ messages = << >>)

\* C17: an action sequence wrapped as an object with an actions list, as a
\* bare list, or as newline-delimited action objects is loaded to the same
\* actions and yields the same message sequence (messages, order, time_ms).
C17_ContainersAgree ==
    LET s == Content(raw) IN
    /\ pc # "load" => actions = s
    /\ Extracted =>
          /\ messages = MessagesFrom(AsObject(s))
          /\ messages = MessagesFrom(AsList(s))
          /\ messages = MessagesFrom(AsLines(s))

\* the lines the fallback loop iterates over
Lines == SplitLines(raw.items, 1)

\* those of them that parse
ParsedLines == { k \in DOMAIN Lines : Lines[k].kind = "json" }

InWindow(k) ==
    LET r == ExtractRendererAndTimes(actions[k]) IN
    /\ r.has_renderer
    /\ HasTime(r, first_ts_usec)
    /\ TimeMs(r, first_ts_usec) <= args.end

\* the (time_ms, raw action) pairs kept from the transcript reordered by p
KeptOf(p) ==
    LET acts == [k \in DOMAIN actions |-> actions[p[k]]]
        msgs == Normalize(acts, 1, FirstTs(acts, 1, None), args.end)
    IN  { << msgs[m].time_ms, p[msgs[m].src] >> : m \in DOMAIN msgs }

\* C18: with an end time the retained messages are exactly those whose
\* time_ms does not exceed the window end, in transcript order, whatever the
\* order of the actions: every permutation of the actions retains the same
\* messages, and a message behind the end does not stop later ones.
C18_WindowKeepsExactly ==
    (args.end # 0 /\ Extracted) =>
        /\ { messages[m].src : m \in DOMAIN messages }
              = { k \in DOMAIN actions : InWindow(k) }
        /\ \A m \in DOMAIN messages :
              /\ messages[m].time_ms <= args.end
              /\ messages[m].time_ms =
                    TimeMs(ExtractRendererAndTimes(actions[messages[m].src]),
                           first_ts_usec)
        /\ \A m, n \in DOMAIN messages : m < n => messages[m].src < messages[n].src
        /\ \A p \in Permutations(DOMAIN actions) :
              KeptOf(p) = { << messages[m].time_ms, messages[m].src >> :
                              m \in DOMAIN messages }

C18_Witness ==
    /\ pc = "sort"
    /\ args.end = 1000
    /\ Len(actions) = 3
    /\ actions[1] = ReplayAt(2000, ShortRuns)
    /\ Len(messages) = 2
    /\ messages[1].src = 2
    /\ messages[1].time_ms = 0
    /\ messages[2].src = 3
    /\ messages[2].time_ms = 1000

\* the tokens of the token list pl that are on the line of token k
OnLineOf(pl, k) == { j \in DOMAIN pl : pl[j].run_y = pl[k].run_y }

\* token k of pl is the first token on its line
FirstOnLine(pl, k) == \A j \in OnLineOf(pl, k) : k <= j

\* the combined width of the tokens j..Len(pl) of pl that are on line run_y
RECURSIVE LineExtent(_, _, _)
LineExtent(pl, run_y, j) ==
    IF j > Len(pl) THEN 0
    ELSE (IF pl[j].run_y = run_y THEN pl[j].w ELSE 0) + LineExtent(pl, run_y, j + 1)

\* token k of pl was wrapped: it is on another line than the token before it
\* (the first token: than the line of the author label)
Wrapped(pl, k) == pl[k].run_y # (IF k = 1 THEN 0 ELSE pl[k - 1].run_y)

\* the wrap rule for the token list pl of the block of message m
WrapRule(pl, m) ==
    /\ \A k \in DOMAIN pl :
          /\ ~FirstOnLine(pl, k) => pl[k].run_x + pl[k].w <= chat_inner_width
          /\ Cardinality(OnLineOf(pl, k)) >= 2 =>
                LineExtent(pl, pl[k].run_y, 1) <= chat_inner_width
          /\ pl[k].w > chat_inner_width => OnLineOf(pl, k) = {k}
          /\ Wrapped(pl, k) =>
                /\ pl[k].run_x = author_x
                /\ pl[k].run_y =
                      (IF k = 1 THEN 0 ELSE pl[k - 1].run_y) + chat_line_height
          /\ (~Wrapped(pl, k) /\ k > 1) => pl[k].run_x = pl[k - 1].run_x + pl[k - 1].w
          /\ (~Wrapped(pl, k) /\ k = 1) => pl[k].run_x = runs_x(m)
    /\ NumLines(m) = 1 + Cardinality({ k \in DOMAIN pl : Wrapped(pl, k) })
    /\ Len(pl) = Cardinality({ t \in DOMAIN m.runs :
                                 \/ m.runs[t].type = 0
                                 \/ m.runs[t].url.key \in DOMAIN cache })

\* C20: in every laid-out message block a token (word or cached emoji) that
\* is not the first on its line ends at or before the inner content width, so
\* the tokens of a line of two or more tokens are together not wider than it;
\* a token wider than the inner width is alone on its line; every wrap puts
\* the pen to the author x position and adds exactly one line.
C20_WrapRule ==
    (Rendering /\ img.cleared) =>
        \A b \in DOMAIN img.blocks :
            WrapRule(img.blocks[b].runs_draw, messages[img.blocks[b].index + 1])

C20_Witness ==
    /\ Rendering
    /\ img.cleared
    /\ args.width = 400
    /\ args.chat_scale = 1
    /\ \E b \in DOMAIN img.blocks :
          LET pl == img.blocks[b].runs_draw IN
          /\ Len(pl) = 5
          /\ pl[2].type = 1
          /\ ~Wrapped(pl, 2)
          /\ pl[3].w > chat_inner_width
          /\ Wrapped(pl, 3)
          /\ Wrapped(pl, 4)
          /\ ~Wrapped(pl, 5)
          /\ pl[5].run_y = 2 * chat_line_height

\* C21: asset resolution precedes rendering: every fetch and every insertion
\* into the asset cache happens before the first frame is written; no step
\* that leaves a frame written modifies the cache map or fetches an image.
C21_AssetsBeforeFrames ==
    [][(written' # << >>) => (cache' = cache /\ fetched' = fetched)]_vars

C21_Witness ==
    /\ pc = "done"
    /\ Len(written) = 4
    /\ Len(fetched) = 3
    /\ \E f \in DOMAIN fetched : ~fetched[f].ok
    /\ \E f \in DOMAIN fetched : fetched[f].ok
    /\ DOMAIN cache # {}

\* the URLs whose fetch was tried and failed
Failed == { fetched[f].url : f \in { g \in DOMAIN fetched : ~fetched[g].ok } }

\* the words of the token list rs
WordsOf(rs) == Cardinality({ t \in DOMAIN rs : rs[t].type = 0 })

\* a block drawn for message m: the author label and every word are drawn,
\* and no image is drawn for a URL whose fetch failed
DrawnWithoutFailed(b, m) ==
    /\ b.author_w = m.author_w
    /\ WordsOf(b.runs_draw) = WordsOf(m.runs)
    /\ m.avatar_url \in Failed => b.avatar = NoImage
    /\ Cardinality({ t \in DOMAIN b.runs_draw : b.runs_draw[t].type = 1 })
          = Cardinality({ t \in DOMAIN m.runs :
                            m.runs[t].type = 1 /\ m.runs[t].url \notin Failed
                            /\ m.runs[t].url.key \in DOMAIN cache })

\* C22: whatever URLs fail to be fetched or decoded, the run reaches the
\* frame loop and writes all N frames; a failed URL has no cache entry, and in
\* every frame the author label and the words of each message are drawn while
\* the avatar or emoji of a failed URL is skipped.
C22_FailedAssetsSkipped ==
    /\ Rendering => \A u \in Failed : GetCachedImageKey(u) \notin DOMAIN cache
    /\ (pc = "done" /\ ~step.failed) => (Len(written) = num_frames /\ num_frames >= 1)
    /\ \A k \in DOMAIN written :
          \A b \in DOMAIN written[k].img.blocks :
              DrawnWithoutFailed(written[k].img.blocks[b],
                                 messages[written[k].img.blocks[b].index + 1])

\* C23: if the duration is still <= 0 after the timing fallback, the run ends
\* with the fatal duration error and no frame is ever written: the encoder is
\* not started, and no position behind the guard is reached with a duration
\* <= 0.
C23_ZeroDurationIsFatal ==
    /\ pc \in {"ffmpeg", "prefetch", "count", "frames", "close", "done"} =>
          duration_seconds > 0
    /\ written # << >> => duration_seconds > 0
    /\ (pc = "exit" /\ pre.messages # << >>
        /\ exit_msg # "Error: Computed frame count") =>
          /\ exit_msg = "Error: Computed duration is 0s"
          /\ duration_seconds <= 0
          /\ written = << >>
          /\ encoder = "none"
          /\ num_frames = 0

C23_Witness ==
    /\ pc = "exit"
    /\ exit_msg = "Error: Computed duration is 0s"
    /\ fallback
    /\ Len(messages) = 2
    /\ messages[2].time_ms = 1200
    /\ args.start = 1000
    /\ args.end = 1000
    /\ written = << >>

\* the step of the third loop of main (lines 171-182) for the channel at the
\* head of the list
CheckStep ==
    /\ helper.pc = "check"
    /\ helper.todo # << >>
    /\ helper' # helper
    /\ helper'.pc # "cleanup"

\* has the step started a process of this kind for the channel and put it in
\* the place of the one in running_processes
Restarted(name, kind) ==
    /\ name \in DOMAIN running_processes'
    /\ running_processes'[name][kind] # running_processes[name][kind]
    /\ running_processes'[name][kind] \in DOMAIN processes'
    /\ processes'[running_processes'[name][kind]] =
          [kind |-> kind, channel |-> name, state |-> "running"]

\* C24: whenever the check of an iteration of the orchestrator finds that a
\* video or chat recorder of a configured channel has exited, it starts a
\* new process of that kind for the channel in that iteration, the new
\* process takes the place of the dead one in running_processes, and the
\* main loop goes on.
C24_DeadRecorderRestarted ==
    [][CheckStep =>
          /\ helper'.pc \in MainLoop
          /\ \A kind \in {"video", "chat"} :
                Dead(Head(helper.todo), kind) => Restarted(Head(helper.todo), kind)]_vars

\* C25: when SIGINT or SIGTERM arrives at any point of the main loop, also
\* between the start of a recorder and its entry in running_processes, then
\* no process the orchestrator has started (recorder or mover) is left
\* running when the orchestrator exits: each has exited before or was
\* stopped by cleanup; and a further signal starts no second cleanup.
C25_SignalStopsEverything ==
    /\ (helper.pc = "exit" /\ signals[1] \in MainLoop) =>
          \A pid \in DOMAIN processes : ~Polls(processes, pid)
    /\ helper.pc # "off" => helper.cleanups <= 1

\* the recorder processes of a channel
RecordersOf(name) ==
    { pid \in DOMAIN processes :
         processes[pid].channel = name /\ processes[pid].kind # "mover" }

\* C26: at the end of every completed iteration of the orchestrator loop the
\* channels of running_processes are the channel names of the configuration
\* read at the start of the iteration, each with a video and a chat process
\* of its own; no recorder of a channel that is not in that configuration
\* is left running; and at no time do two recorders of one kind run for
\* one channel.
C26_RunningMatchesConfiguration ==
    /\ helper.pc = "sleep" =>
          /\ DOMAIN running_processes = Range(helper.active_channels)
          /\ \A name \in DOMAIN running_processes : \A kind \in {"video", "chat"} :
                /\ running_processes[name][kind] \in RecordersOf(name)
                /\ processes[running_processes[name][kind]].kind = kind
          /\ \A pid \in DOMAIN processes :
                (processes[pid].kind # "mover"
                 /\ processes[pid].channel \notin Range(helper.active_channels)) =>
                    ~Polls(processes, pid)
    /\ helper.pc # "off" =>
          \A name \in {"a", "b"} : \A one, other \in RecordersOf(name) :
              (one # other /\ processes[one].kind = processes[other].kind) =>
                  ~(Polls(processes, one) /\ Polls(processes, other))

\* an iteration has ended after an edit that took channel b out of the
\* configuration: its recorders are stopped, those of channel a run on
C26_Witness ==
    /\ helper.pc = "sleep"
    /\ edits = 1
    /\ DOMAIN running_processes = {"a"}
    /\ Polls(processes, running_processes["a"].video)
    /\ Polls(processes, running_processes["a"].chat)
    /\ Cardinality(RecordersOf("b")) = 2
    /\ \A pid \in RecordersOf("b") : processes[pid].state = "stopped"

\* the step is a scan of the mover: only a scan writes seen_sizes and the
\* history, and only the move of a scan takes a file without a skip
\* extension out of its temp directory
ScanStep ==
    \/ scan' # scan
    \/ seen_sizes' # seen_sizes
    \/ \E p \in Paths :
          /\ Ext(p.name) \notin SKIP_EXTENSIONS
          /\ temp.size[p] # NoFile
          /\ temp'.size[p] = NoFile

\* does the configuration hold the channel of the path, with a target
Targeted(channels, p) ==
    \E k \in DOMAIN channels :
        channels[k].name = p.dir /\ channels[k].target # ""

\* the paths without a skip extension
Tracked == { p \in Paths : Ext(p.name) \notin SKIP_EXTENSIONS }

\* C27: a scan moves a file only if seen_sizes held a size for its path
\* before the scan and the file has that size now; a file seen for the first
\* time in the scan, or of another size than the recorded one, is not moved
\* in that scan, and a file with the extension .part or .ytdl is never
\* tracked and never moved.
C27_MovedOnlyWhenStable ==
    [][ScanStep =>
          /\ \A p \in scan'.moved :
                /\ p \in DOMAIN seen_sizes
                /\ seen_sizes[p] = temp.size[p]
          /\ \A p \in Paths \ Tracked :
                /\ p \notin DOMAIN seen_sizes'
                /\ p \notin scan'.moved]_vars

\* C28: no file is moved out of the temp directory while its recorder is
\* still writing it: every file a scan moves has reached its final size.
C28_MovedFilesAreFinal == scan.unfinished = {}

\* C29: a file without a skip extension in the temp directory of a channel
\* that stays configured with a target does not keep one size for ever
\* without being moved; every scan that reads a file either moves it or
\* leaves its present size recorded, and a scan that finds the recorded size
\* again moves the file unless the move fails; a failed move leaves the file
\* and its entry in place for the next scan.
C29_StableFilesAreMoved ==
    /\ \A p \in Tracked : \A size \in 1..MaxSize :
          []<>~(temp.size[p] = size /\ Targeted(channellist, p))
    /\ [][ScanStep =>
             \A p \in scan'.read :
                /\ \/ p \in scan'.moved
                   \/ p \in DOMAIN seen_sizes' /\ seen_sizes'[p] = temp.size[p]
                /\ (p \in DOMAIN seen_sizes /\ seen_sizes[p] = temp.size[p]) =>
                      p \in scan'.moved \cup scan'.failed
                /\ p \in scan'.failed \ scan'.moved =>
                      /\ temp'.size[p] = temp.size[p]
                      /\ p \in DOMAIN seen_sizes'
                      /\ seen_sizes'[p] = temp.size[p]]_vars

\* a scan has moved the finished chat file, the move of the log has failed
\* and its entry is kept
C29_Witness ==
    /\ scan.completed
    /\ scan.moved = {ChatJson}
    /\ scan.failed = {ChatLog}
    /\ ChatLog \in DOMAIN seen_sizes
    /\ temp.size[ChatLog] = seen_sizes[ChatLog]
    /\ temp.size[ChatJson] = NoFile

\* C30: after every completed scan each key of seen_sizes is a path the scan
\* has seen as a regular file in the temp directory of a channel of the
\* configuration it read, and no path it has moved; a path without an entry
\* before the scan (never seen, or its entry removed) is not moved in it.
C30_SeenSizesAreCurrent ==
    [][(ScanStep /\ scan'.completed) =>
          /\ \A p \in DOMAIN seen_sizes' :
                /\ p \in Entries(temp.size, p.dir)
                /\ Targeted(channellist, p)
                /\ p \notin scan'.moved
          /\ \A p \in scan'.moved : p \in DOMAIN seen_sizes]_vars

\* the calls of render_chat_json among the calls made for a path
Renders(cs) == { i \in DOMAIN cs : cs[i].call = "render_chat_json" }

\* the moves that went well among the calls made for a path
Moves(cs) == { i \in DOMAIN cs : cs[i].call = "move" /\ cs[i].ok }

\* what the scan of the whole configuration does when nothing fails
CleanScan == ScanChannels(Begin, channellist, {}, {}, {})

\* C31: the mover calls the renderer for a file only directly after the
\* move of that file went well, only for a chat JSON file, once for each
\* such move and with the path the file was moved to; a failed move is
\* followed by no rendering; and a scan in which a rendering fails goes
\* through every file and channel as the scan without the failure does.
C31_RenderFollowsMove ==
    [][ScanStep =>
          /\ \A p \in Paths :
                LET cs == scan'.calls[p]
                IN  /\ \A i \in Renders(cs) :
                          /\ is_chat_json(p.name)
                          /\ i - 1 \in Moves(cs)
                          /\ cs[i].arg = cs[i - 1].arg
                          /\ \E k \in DOMAIN channellist :
                                /\ channellist[k].name = p.dir
                                /\ cs[i].arg = Dest(channellist[k].target, p)
                    /\ \A i \in Moves(cs) :
                          is_chat_json(p.name) => i + 1 \in Renders(cs)
                    /\ (p \in scan'.moved) = (Moves(cs) # {})
          /\ (\E p \in Paths : \E i \in Renders(scan'.calls[p]) :
                 ~scan'.calls[p][i].ok) =>
                /\ scan'.completed
                /\ seen_sizes' = DropStale(CleanScan)
                /\ temp'.size = CleanScan.size
                /\ scan'.read = CleanScan.read
                /\ scan'.moved = CleanScan.moved]_vars

\* a completed scan moved the chat file and the log, and the rendering of
\* the chat file, called once with the path in the target directory, failed
C31_Witness ==
    /\ scan.completed
    /\ scan.moved = { ChatJson, ChatLog }
    /\ scan.calls[ChatJson] =
          << Call("move", Dest("out/a", ChatJson), TRUE),
             Call("render_chat_json", Dest("out/a", ChatJson), FALSE) >>
    /\ scan.calls[ChatLog] = << Call("move", Dest("out/a", ChatLog), TRUE) >>

\* the final messages: those at the largest time_ms of the transcript
Final == { k \in DOMAIN messages :
             \A j \in DOMAIN messages : messages[j].time_ms <= messages[k].time_ms }

\* C32: when no end time is given and the timing fallback is not applied,
\* the time of every frame is below the end of the window, the cursor stays
\* below every message at the largest time_ms, and no frame written shows
\* such a message.
C32_FinalMessageNeverShown ==
    (args.end = 0 /\ ~fallback /\ Rendering) =>
        /\ Stepped =>
              /\ step.t_ms < end_time_seconds
              /\ \A k \in Final : step.after < k - 1
        /\ \A k \in Final : current_message_index < k - 1
        /\ \A w \in DOMAIN written :
              \A b \in DOMAIN written[w].img.blocks :
                  written[w].img.blocks[b].index + 1 \notin Final

\* a render without an end and without the fallback is through: the frame
\* count was rounded up, every frame was written, and the cursor ended at
\* the message just before the final one
C32_Witness ==
    /\ pc = "done"
    /\ ~step.failed
    /\ args.end = 0
    /\ ~fallback
    /\ num_frames * 1000 > fps * duration_seconds
    /\ Len(written) = num_frames
    /\ Len(messages) >= 2
    /\ Final = { Len(messages) }
    /\ current_message_index = Len(messages) - 2

\* C33: a fatal termination before the frame loop (no messages, a duration
\* of zero, a frame count below 1) happens before the encoder is launched:
\* the script never exits with an error while an encoder has been started.
C33_FatalBeforeEncoder == pc = "exit" => encoder = "none"

\* the captures that run
Capturing(cs) == { c \in DOMAIN cs : cs[c] = "running" }

\* C34: in the stream recorder and in the chat recorder at most one capture
\* subprocess is tracked, and no other capture runs: a capture is started
\* only when none is tracked and the live check has just reported the
\* channel as live, and the live check is made only when no capture is
\* tracked, so never while a tracked capture runs.
C34_OneCaptureAtATime ==
    [][/\ Capturing(captures') \subseteq { recorder'.recording_proc }
       /\ Len(captures') > Len(captures) =>
             /\ recorder.recording_proc = NoProc
             /\ recorder.pc = "start"
             /\ recorder.stream
             /\ Len(captures') = Len(captures) + 1
             /\ recorder'.recording_proc = Len(captures')
       /\ recorder'.pc \in {"is_currently_live", "start"} =>
             /\ recorder'.recording_proc = NoProc
             /\ Capturing(captures') = {}
       /\ (recorder.pc = "is_currently_live" /\ recorder'.pc = "start") =>
             recorder'.stream]_vars

\* the first capture ended and was seen to have ended, and the recorder
\* started a second one, which runs
C34_Witness ==
    /\ captures = << "exited", "running" >>
    /\ recorder.recording_proc = 2
    /\ recorder.pc = "loop"

\* C35: once a termination signal has been delivered to the chat recorder,
\* the recorder starts no capture subprocess any more, and its next test of
\* the flag (the while of line 167 or the break of line 172) leaves the
\* main loop.
C35_NoCaptureAfterSignal ==
    [][(recorder.kind = "chat" /\ recorder.signalled > 0) =>
          /\ Len(captures') = Len(captures)
          /\ (recorder.pc \in {"loop", "break"} /\ recorder'.pc # recorder.pc) =>
                recorder'.pc = "exit"]_vars

====
